---- MODULE Spec2Model ----
(***************************************************************************)
(* Verification model of the recommendation and meal-plan subsystem of     *)
(* smartmealsplanning: calorie/macro targets (utils/data_processing.py),   *)
(* recipe filtering, similarity ranking and meal-plan assembly             *)
(* (utils/recommendations.py), the meal-plan store                         *)
(* (utils/user_management.py) and the exercise rating table                *)
(* (pages/04_Exercise_Recommendations.py).                                 *)
(*                                                                         *)
(* Python strings are modelled as sequences of one-character strings so    *)
(* that lower(), strip(), split() and the substring test "a in b" are      *)
(* computed, not assumed.  Python floats are modelled as exact rationals   *)
(* [n, d]; the places where IEEE-754 doubles differ from the exact value   *)
(* in a way that changes a result are listed explicitly.                   *)
(***************************************************************************)
EXTENDS Integers, Sequences, FiniteSets, TLC

VARIABLES
    \* ---- calculate_calorie_needs / calculate_macros applied to one input
    t_in,                   \* the arguments of the call
    t_out,                  \* NoTargets before the call, then the returned targets
    \* ---- generate_meal_plan_with_cosine_similarity (one request)
    pc,                     \* position of the request in the function body
    user_data,              \* the profile record passed in
    recipes_df,             \* rows returned by load_optimized_meals()
    days,                   \* the days argument
    calorie_goal,           \* line 64
    macros_needed,          \* line 58
    week_plan,              \* slot -> ranked pool (lines 81-104)
    meal_plan,              \* the plan under construction (lines 107-112)
    day,                    \* loop variable of line 114
    day_plan,               \* lines 115-119
    totals,                 \* total_calories, total_protein, total_carbs, total_fat
    cycle_pos,              \* position of itertools.cycle (line 149)
    pointers,               \* line 150
    loop_exit,              \* how the while loop of line 152 was left for this day
    result,                 \* the value returned to the caller, or the raised fault
    \* ---- utils/user_management.py meal-plan store and its clients
    meal_plans_collection,  \* inserted documents, in insertion order
    clock,                  \* datetime.utcnow() in the milliseconds BSON keeps
    sessions,               \* per session: position and locals of save_meal_plan
    store_log,              \* history: completed saves, last get_meal_plan
    \* ---- attached_assets/user_exercise_ratings.csv
    ratings_csv,            \* the file: "missing" or its lines
    rating_sessions,        \* per session: position and locals of Save Rating
    rating_log,             \* history: the ratings submitted, last save
    \* ---- recommend_foods_by_goal applied to one input
    rf_in,                  \* the arguments of the call
    rf_out,                  \* NoRecommendations before the call, then its locals and return value
    \* ---- recommend_exercises applied to one input
    ex_in,                  \* the arguments of the call
    ex_out,                  \* NoExercises before the call, then the returned value or the fault
    \* ---- the users collection
    users_collection,       \* user id -> the stored document, or NoUser
    user_log,                \* the operation last performed and what it returned
    \* ---- update_logged_status as last called
    logged_call,             \* the arguments of the last call of update_logged_status
    \* ---- pages/03_Meal_Planner.py: the script after the form returned
    page                    \* position of the script, what it displayed, the keys it read, its fault

vars == << t_in, t_out, pc, user_data, recipes_df, days, calorie_goal,
           macros_needed, week_plan, meal_plan, day, day_plan, totals,
           cycle_pos, pointers, loop_exit, result, meal_plans_collection,
           clock, sessions, store_log, ratings_csv, rating_sessions,
           rating_log,
           rf_in, rf_out,
           ex_in, ex_out,
           users_collection, user_log,
           logged_call,
           page >>

targetVars == << t_in, t_out >>
planVars == << pc, user_data, recipes_df, days, calorie_goal, macros_needed,
               week_plan, meal_plan, day, day_plan, totals, cycle_pos,
               pointers, loop_exit, result >>
storeVars == << meal_plans_collection, clock, sessions, store_log >>
ratingVars == << ratings_csv, rating_sessions, rating_log >>
scoreVars == << rf_in, rf_out >>
exerciseVars == << ex_in, ex_out >>
userVars == << users_collection, user_log >>
loggedVars == << logged_call >>
pageVars == << page >>

-----------------------------------------------------------------------------
(* Numbers *)

Abs(x) == IF x < 0 THEN -x ELSE x

\* floor(n / d) for d > 0, also for negative n
FloorDiv(n, d) == IF n >= 0 THEN n \div d ELSE -((-n + d - 1) \div d)

\* Python 3 round() of the exact value n/d (d > 0): nearest integer, ties to even
RoundHalfEven(n, d) ==
    LET q == FloorDiv(n, d)
        r == n - q * d
    IN  IF 2 * r < d THEN q
        ELSE IF 2 * r > d THEN q + 1
        ELSE IF q % 2 = 0 THEN q ELSE q + 1

\* exact rationals [n, d] with d > 0
Rat(n, d) == [n |-> n, d |-> d]
RInt(k) == Rat(k, 1)
RAdd(a, b) == IF a.d = b.d THEN Rat(a.n + b.n, a.d) ELSE Rat(a.n * b.d + b.n * a.d, a.d * b.d)
RSub(a, b) == IF a.d = b.d THEN Rat(a.n - b.n, a.d) ELSE Rat(a.n * b.d - b.n * a.d, a.d * b.d)
RMul(a, b) == Rat(a.n * b.n, a.d * b.d)
RDiv(a, b) == IF b.n > 0 THEN Rat(a.n * b.d, a.d * b.n) ELSE Rat(-(a.n * b.d), a.d * (-b.n))
RLess(a, b) == a.n * b.d < b.n * a.d
RLeq(a, b) == a.n * b.d <= b.n * a.d
\* round(x, 1): the nearest multiple of 0.1
RRound1(a) == Rat(RoundHalfEven(10 * a.n, a.d), 10)
\* round(x, 2): the nearest multiple of 0.01
RRound2(a) == Rat(RoundHalfEven(100 * a.n, a.d), 100)

RECURSIVE RSum(_)
RSum(s) == IF s = << >> THEN RInt(0) ELSE RAdd(Head(s), RSum(Tail(s)))

-----------------------------------------------------------------------------
(* Strings: a Python str is a sequence of characters *)

UpperCase == << "A","B","C","D","E","F","G","H","I","J","K","L","M",
                "N","O","P","Q","R","S","T","U","V","W","X","Y","Z" >>
LowerCase == << "a","b","c","d","e","f","g","h","i","j","k","l","m",
                "n","o","p","q","r","s","t","u","v","w","x","y","z" >>

LowerChar(c) ==
    IF \E i \in 1..26 : UpperCase[i] = c
    THEN LowerCase[CHOOSE i \in 1..26 : UpperCase[i] = c]
    ELSE c

\* str.lower()
Lower(s) == [i \in 1..Len(s) |-> LowerChar(s[i])]

\* str.capitalize(): first character upper-cased, the rest lower-cased
UpperChar(c) ==
    IF \E i \in 1..26 : LowerCase[i] = c
    THEN UpperCase[CHOOSE i \in 1..26 : LowerCase[i] = c]
    ELSE c
Capitalize(s) == [i \in 1..Len(s) |-> IF i = 1 THEN UpperChar(s[i]) ELSE LowerChar(s[i])]

\* str.strip(): leading and trailing blanks removed
RECURSIVE LStrip(_)
LStrip(s) == IF s # << >> /\ Head(s) = " " THEN LStrip(Tail(s)) ELSE s
RECURSIVE RStrip(_)
RStrip(s) == IF s # << >> /\ s[Len(s)] = " " THEN RStrip(SubSeq(s, 1, Len(s) - 1)) ELSE s
Strip(s) == RStrip(LStrip(s))

\* Python "t in s" for strings: t is a contiguous substring of s
Contains(s, t) ==
    \E i \in 1..(Len(s) - Len(t) + 1) : SubSeq(s, i, i + Len(t) - 1) = t

\* str.split(): the maximal blank-free runs of s, in order
RECURSIVE SplitFrom(_, _)
SplitFrom(s, word) ==
    IF s = << >> THEN (IF word = << >> THEN << >> ELSE << word >>)
    ELSE IF Head(s) = " "
         THEN (IF word = << >> THEN << >> ELSE << word >>) \o SplitFrom(Tail(s), << >>)
         ELSE SplitFrom(Tail(s), Append(word, Head(s)))
Split(s) == SplitFrom(s, << >>)

\* dict.get(key, default): the default is used only when the key is absent
Get(d, k, default) == IF k \in DOMAIN d THEN d[k] ELSE default

\* string literals used by the program and its inputs
sMale == << "m","a","l","e" >>
sFemale == << "f","e","m","a","l","e" >>
sOther == << "o","t","h","e","r" >>
sSedentary == << "s","e","d","e","n","t","a","r","y" >>
sLightlyActive == << "l","i","g","h","t","l","y","_","a","c","t","i","v","e" >>
sModeratelyActive == << "m","o","d","e","r","a","t","e","l","y","_","a","c","t","i","v","e" >>
sVeryActive == << "v","e","r","y","_","a","c","t","i","v","e" >>
sExtraActive == << "e","x","t","r","a","_","a","c","t","i","v","e" >>
sWeightLossKey == << "w","e","i","g","h","t"," ","l","o","s","s" >>
sWeightGainKey == << "w","e","i","g","h","t"," ","g","a","i","n" >>
sMaintainWeightKey == << "m","a","i","n","t","a","i","n"," ","w","e","i","g","h","t" >>
sMuscleGainKey == << "m","u","s","c","l","e"," ","g","a","i","n" >>
sNotSpecifiedKey == << "n","o","t"," ","s","p","e","c","i","f","i","e","d" >>
\* the options of the Goal select box (pages/02_Profile.py), stored as shown
sWeightLoss == << "W","e","i","g","h","t"," ","L","o","s","s" >>
sWeightGain == << "W","e","i","g","h","t"," ","G","a","i","n" >>
sMaintainWeight == << "M","a","i","n","t","a","i","n"," ","W","e","i","g","h","t" >>
sMuscleGain == << "M","u","s","c","l","e"," ","G","a","i","n" >>
sNotSpecified == << "N","o","t"," ","s","p","e","c","i","f","i","e","d" >>
\* the Activity Level select box stores option.lower(): a blank, not an underscore
sLightlyActiveStored == << "l","i","g","h","t","l","y"," ","a","c","t","i","v","e" >>
sVeryActiveStored == << "v","e","r","y"," ","a","c","t","i","v","e" >>

-----------------------------------------------------------------------------
(* utils/data_processing.py: calculate_calorie_needs, calculate_macros *)

\* the number_input ranges of the profile form
FormAgeMin == 10
FormAgeMax == 100
FormHeightMin == 50
FormHeightMax == 250
FormWeightMin == 20
FormWeightMax == 250

\* activity_multipliers, times 1000, in dict order
ActivityMultipliers ==
    << << sSedentary, 1200 >>, << sLightlyActive, 1375 >>,
       << sModeratelyActive, 1550 >>, << sVeryActive, 1725 >>,
       << sExtraActive, 1900 >> >>

\* goal_adjustments, in dict order
GoalAdjustments ==
    << << sWeightLossKey, -500 >>, << sWeightGainKey, 500 >>,
       << sMaintainWeightKey, 0 >>, << sMuscleGainKey, 300 >>,
       << sNotSpecifiedKey, 0 >> >>

\* dict.get(key, default) on a dict written as a sequence of <<key, value>>
DictGet(pairs, key, default) ==
    IF \E i \in 1..Len(pairs) : pairs[i][1] = key
    THEN pairs[CHOOSE i \in 1..Len(pairs) : pairs[i][1] = key][2]
    ELSE default

\* for key, value in goal_adjustments.items(): if key in clean_goal: ...; break
CalorieAdjustment(clean_goal) ==
    LET hits == { i \in 1..Len(GoalAdjustments) : Contains(clean_goal, GoalAdjustments[i][1]) }
    IN  IF hits = {} THEN 0
        ELSE GoalAdjustments[CHOOSE i \in hits : \A j \in hits : i <= j][2]

\* Four times the basal metabolic rate (Mifflin-St Jeor); weight kg, height cm
Bmr4(weight, height, age, gender) ==
    IF Lower(gender) = sMale
    THEN 40 * weight + 25 * height - 20 * age + 20
    ELSE 40 * weight + 25 * height - 20 * age - 644

\* round(daily_calories / 50) * 50, daily_calories kept as a multiple of 1/4000
calculate_calorie_needs(weight, height, age, gender, activity_level, goal) ==
    LET activity_multiplier == DictGet(ActivityMultipliers, Lower(activity_level), 1550)
        tdee4000 == Bmr4(weight, height, age, gender) * activity_multiplier
        clean_goal == Strip(Lower(goal))
        daily4000 == tdee4000 + 4000 * CalorieAdjustment(clean_goal)
    IN  RoundHalfEven(daily4000, 200000) * 50

\* The calorie figures at which the double product calories * 0.35 lies just
\* below the exact product (2600 * 0.35 = 909.9999999999999), so that an exact
\* tie k + 0.5 is rounded toward zero; the other percentages give exact ties.
InexactProduct35 == { 2600, 5800 }

\* round((calories * pct) / kcal_per_gram)
MacroGrams(calories, pct100, kcal_per_gram) ==
    LET n == calories * pct100
        d == 100 * kcal_per_gram
    IN  IF pct100 = 35 /\ Abs(calories) \in InexactProduct35 /\ (2 * Abs(n)) % (2 * d) = d
        THEN (IF n >= 0 THEN FloorDiv(n, d) ELSE -FloorDiv(-n, d))
        ELSE RoundHalfEven(n, d)

\* the percentage split <<protein, fat, carbs>> chosen by the if/elif chain
MacroSplit(goal) ==
    LET g == IF goal # << >> THEN Lower(goal) ELSE << >>
    IN  IF Contains(g, sMuscleGainKey) THEN << 30, 25, 45 >>
        ELSE IF Contains(g, sWeightLossKey) THEN << 35, 30, 35 >>
        ELSE IF Contains(g, sWeightGainKey) THEN << 20, 30, 50 >>
        ELSE << 25, 30, 45 >>

calculate_macros_fat_as_carbs(calories, goal) ==
    LET pct == MacroSplit(goal)
    IN  [ protein |-> MacroGrams(calories, pct[1], 4),
          carbs   |-> MacroGrams(calories, pct[3], 4),
          fat     |-> MacroGrams(calories, pct[2], 4) ]

calculate_macros(calories, goal) ==
    LET pct == MacroSplit(goal)
    IN  [ protein |-> MacroGrams(calories, pct[1], 4),
          carbs   |-> MacroGrams(calories, pct[3], 4),
          fat     |-> MacroGrams(calories, pct[2], 9) ]

-----------------------------------------------------------------------------
(* Recipe rows: the column contract of attached_assets/optimized_recipes.parquet *)

sBreakfast == << "b","r","e","a","k","f","a","s","t" >>
sLunch == << "l","u","n","c","h" >>
sDinner == << "d","i","n","n","e","r" >>
sEgg == << "E","g","g" >>
sNut == << "n","u","t" >>
sItalian == << "I","t","a","l","i","a","n" >>
sThai == << "T","h","a","i" >>
sGreek == << "G","r","e","e","k" >>
sUser == << "U","s","e","r" >>

\* every recipe row the sampled catalogs are built from, in file order
AllRecipes ==
    << [ name |-> << "E","g","g"," ","t","o","a","s","t" >>,
         meal_type |-> sBreakfast,
         calories |-> 300, protein |-> 20, carbs |-> 30, fat |-> 10,
         ingredients |-> << << "E","g","g","s" >>, << "b","r","e","a","d" >> >>,
         tags |-> << << "a","m","e","r","i","c","a","n" >> >> ],
       [ name |-> << "o","a","t"," ","b","o","w","l" >>,
         meal_type |-> sBreakfast,
         calories |-> 600, protein |-> 20, carbs |-> 90, fat |-> 10,
         ingredients |-> << << "o","a","t","s" >>, << "m","i","l","k" >> >>,
         tags |-> << << "g","r","e","e","k","-","s","t","y","l","e" >>, << "T","h","a","i"," ","f","u","s","i","o","n" >> >> ],
       [ name |-> << "p","a","n","c","a","k","e","s" >>,
         meal_type |-> sBreakfast,
         calories |-> 900, protein |-> 40, carbs |-> 90, fat |-> 30,
         ingredients |-> << << "p","e","a","n","u","t"," ","b","u","t","t","e","r" >>, << "f","l","o","u","r" >> >>,
         tags |-> << << "a","m","e","r","i","c","a","n" >> >> ],
       [ name |-> << "c","h","i","c","k","e","n"," ","r","i","c","e" >>,
         meal_type |-> sLunch,
         calories |-> 650, protein |-> 40, carbs |-> 90, fat |-> 10,
         ingredients |-> << << "c","h","i","c","k","e","n" >>, << "r","i","c","e" >> >>,
         tags |-> << << "t","h","a","i" >> >> ],
       [ name |-> << "p","a","s","t","a"," ","s","a","l","a","d" >>,
         meal_type |-> sLunch,
         calories |-> 950, protein |-> 20, carbs |-> 90, fat |-> 30,
         ingredients |-> << << "p","a","s","t","a" >>, << "w","a","l","n","u","t","s" >> >>,
         tags |-> << << "i","t","a","l","i","a","n" >> >> ],
       [ name |-> << "b","e","a","n"," ","s","o","u","p" >>,
         meal_type |-> sLunch,
         calories |-> 350, protein |-> 20, carbs |-> 30, fat |-> 10,
         ingredients |-> << << "b","e","a","n","s" >> >>,
         tags |-> << << "i","t","a","l","i","a","n"," ","s","o","u","p" >> >> ],
       [ name |-> << "b","e","e","f"," ","s","t","e","w" >>,
         meal_type |-> sDinner,
         calories |-> 900, protein |-> 40, carbs |-> 30, fat |-> 30,
         ingredients |-> << << "b","e","e","f" >>, << "p","o","t","a","t","o" >> >>,
         tags |-> << << "a","m","e","r","i","c","a","n" >> >> ],
       [ name |-> << "v","e","g","g","i","e"," ","c","u","r","r","y" >>,
         meal_type |-> sDinner,
         calories |-> 600, protein |-> 20, carbs |-> 90, fat |-> 10,
         ingredients |-> << << "c","h","i","c","k","p","e","a","s" >>, << "c","o","c","o","n","u","t" >> >>,
         tags |-> << << "t","h","a","i" >> >> ],
       [ name |-> << "e","g","g"," ","f","r","i","e","d"," ","r","i","c","e" >>,
         meal_type |-> sDinner,
         calories |-> 300, protein |-> 20, carbs |-> 30, fat |-> 10,
         ingredients |-> << << "r","i","c","e" >>, << "o","i","l" >> >>,
         tags |-> << << "t","h","a","i" >> >> ],
       [ name |-> << "f","r","u","i","t"," ","c","u","p" >>,
         meal_type |-> << "s","n","a","c","k" >>,
         calories |-> 300, protein |-> 20, carbs |-> 30, fat |-> 10,
         ingredients |-> << << "a","p","p","l","e" >> >>,
         tags |-> << << "a","m","e","r","i","c","a","n" >> >> ] >>

\* the rows of s whose index is in keep, order preserved
RECURSIVE Pick(_, _, _)
Pick(s, keep, i) ==
    IF i > Len(s) THEN << >>
    ELSE (IF i \in keep THEN << s[i] >> ELSE << >>) \o Pick(s, keep, i + 1)

\* boolean-mask row selection df[mask]: the rows satisfying Test, order preserved
RowsWhere(df, Test(_)) == Pick(df, { i \in 1..Len(df) : Test(df[i]) }, 1)

-----------------------------------------------------------------------------
(* utils/data_processing.py: filter_recipes_by_allergies_and_cuisines *)

\* [a.strip().lower() for a in allergies]
CleanAllergies(allergies) == [i \in 1..Len(allergies) |-> Lower(Strip(allergies[i]))]

\* any(allergen in ingredient.lower() for ingredient in ingredients for allergen in allergies)
IngredientHit(row, allergies) ==
    \E i \in 1..Len(row.ingredients) : \E a \in 1..Len(allergies) :
        Contains(Lower(row.ingredients[i]), allergies[a])

\* any(allergen == word for word in name.lower().split() for allergen in allergies)
NameHit(row, allergies) ==
    LET words == Split(Lower(row.name))
    IN  \E w \in 1..Len(words) : \E a \in 1..Len(allergies) : allergies[a] = words[w]

\* any(cuisine.lower() in tag.lower() for tag in tags for cuisine in preferred_cuisines)
CuisineHit(row, preferred_cuisines) ==
    \E t \in 1..Len(row.tags) : \E c \in 1..Len(preferred_cuisines) :
        Contains(Lower(row.tags[t]), Lower(preferred_cuisines[c]))

AllergyFilterIngredientsOnly(df, allergies) ==
    LET cleaned == CleanAllergies(allergies)
        Keep(row) == ~ IngredientHit(row, cleaned)
    IN  IF Len(allergies) > 0 THEN RowsWhere(df, Keep) ELSE df

\* lines 290-320
AllergyFilter(df, allergies) ==
    LET cleaned == CleanAllergies(allergies)
        Keep(row) == ~ (IngredientHit(row, cleaned) \/ NameHit(row, cleaned))
    IN  IF Len(allergies) > 0 THEN RowsWhere(df, Keep) ELSE df

\* lines 322-333
CuisineFilter(df, preferred_cuisines) ==
    LET Keep(row) == CuisineHit(row, preferred_cuisines)
    IN  IF Len(preferred_cuisines) > 0 /\ Len(df) > 0 THEN RowsWhere(df, Keep) ELSE df

filter_recipes_last_row_first(df, allergies, preferred_cuisines) ==
    LET kept == IF Len(df) = 0 THEN df
                ELSE CuisineFilter(AllergyFilter(df, allergies), preferred_cuisines)
    IN  [ i \in 1..Len(kept) |-> IF i = 1 THEN kept[Len(kept)] ELSE kept[i - 1] ]

filter_recipes_by_allergies_and_cuisines(df, allergies, preferred_cuisines) ==
    IF Len(df) = 0 THEN df
    ELSE CuisineFilter(AllergyFilter(df, allergies), preferred_cuisines)

-----------------------------------------------------------------------------
(* utils/recommendations.py lines 82-104: per-slot MinMaxScaler, cosine       *)
(* similarity to the user vector, sort descending, head(days)                 *)

RECURSIVE Gcd(_, _)
Gcd(a, b) == IF b = 0 THEN a ELSE Gcd(b, a % b)
Lcm(a, b) == (a * b) \div Gcd(a, b)

\* features = ['calories','fat','carbs','protein']
FeatureVector(row) == << row.calories, row.fat, row.carbs, row.protein >>

DataMin(rows, j) ==
    LET vals == { FeatureVector(rows[i])[j] : i \in 1..Len(rows) }
    IN  CHOOSE v \in vals : \A w \in vals : v <= w
DataMax(rows, j) ==
    LET vals == { FeatureVector(rows[i])[j] : i \in 1..Len(rows) }
    IN  CHOOSE v \in vals : \A w \in vals : v >= w

\* MinMaxScaler: data_range_, with a zero range replaced by 1
DataRange(rows, j) ==
    IF DataMax(rows, j) = DataMin(rows, j) THEN 1 ELSE DataMax(rows, j) - DataMin(rows, j)

\* the least common multiple of the four ranges
RangeLcm(rows) ==
    Lcm(Lcm(DataRange(rows, 1), DataRange(rows, 2)),
        Lcm(DataRange(rows, 3), DataRange(rows, 4)))

\* a vector divided by the greatest common divisor of its entries; cosine
\* similarity is unchanged by a positive factor, which keeps the integers small
Reduce(v) ==
    LET g == Gcd(Gcd(Abs(v[1]), Abs(v[2])), Gcd(Abs(v[3]), Abs(v[4])))
    IN  IF g = 0 THEN v ELSE [j \in 1..4 |-> v[j] \div g]

\* scaler.transform(x) = (x - data_min_) / data_range_, times RangeLcm(rows)
Transform(rows, x) ==
    Reduce([j \in 1..4 |-> (x[j] - DataMin(rows, j)) * (RangeLcm(rows) \div DataRange(rows, j))])

Dot(a, b) == a[1] * b[1] + a[2] * b[2] + a[3] * b[3] + a[4] * b[4]

\* Natural numbers beyond 32 bits, as little-endian digits in base 10000, to
\* compare squares of dot products exactly
BigOf(x) == << x % 10000, (x \div 10000) % 10000, x \div 100000000 >>

RECURSIVE ConvSum(_, _, _, _)
ConvSum(a, b, k, i) ==
    IF i > Len(a) THEN 0
    ELSE (IF k + 1 - i >= 1 /\ k + 1 - i <= Len(b) THEN a[i] * b[k + 1 - i] ELSE 0)
         + ConvSum(a, b, k, i + 1)

RECURSIVE Carry(_, _, _)
Carry(c, i, carry) ==
    IF i > Len(c) THEN (IF carry = 0 THEN << >> ELSE << carry >>)
    ELSE << (c[i] + carry) % 10000 >> \o Carry(c, i + 1, (c[i] + carry) \div 10000)

BigMul(a, b) == Carry([k \in 1..(Len(a) + Len(b) - 1) |-> ConvSum(a, b, k, 1)], 1, 0)

BigDigit(a, i) == IF i <= Len(a) THEN a[i] ELSE 0
BigLess(a, b) ==
    LET n == IF Len(a) > Len(b) THEN Len(a) ELSE Len(b)
    IN  \E i \in 1..n :
            /\ BigDigit(a, i) < BigDigit(b, i)
            /\ \A j \in (i + 1)..n : BigDigit(a, j) = BigDigit(b, j)

\* cosine similarity of the scaled user vector u with the scaled row v, as the
\* pair <<u.v, v.v>>; a zero vector has similarity 0 (sklearn normalises it to 0)
Similarity(u, v) ==
    IF (\A j \in 1..4 : v[j] = 0) \/ (\A j \in 1..4 : u[j] = 0)
    THEN << 0, 1 >>
    ELSE << Dot(u, v), Dot(v, v) >>

\* x[1]^2 * y[2]
SquareTimes(x, y) == BigMul(BigMul(BigOf(Abs(x[1])), BigOf(Abs(x[1]))), BigOf(y[2]))

\* x[1]/sqrt(x[2]) < y[1]/sqrt(y[2])
SimLess(x, y) ==
    IF x[1] < 0 /\ y[1] >= 0 THEN TRUE
    ELSE IF x[1] >= 0 /\ y[1] < 0 THEN FALSE
    ELSE IF x[1] >= 0
         THEN BigLess(SquareTimes(x, y), SquareTimes(y, x))
         ELSE BigLess(SquareTimes(y, x), SquareTimes(x, y))

\* meal_df.sort_values('similarity', ascending=False).head(days); rows of equal
\* similarity keep their order
RankBySimilarity(meal_df, user_vector, top_k) ==
    LET u == Transform(meal_df, user_vector)
        sim == [i \in 1..Len(meal_df) |-> Similarity(u, Transform(meal_df, FeatureVector(meal_df[i])))]
        Before(i, k) == SimLess(sim[k], sim[i]) \/ (~ SimLess(sim[i], sim[k]) /\ i < k)
        rank == [i \in 1..Len(meal_df) |-> 1 + Cardinality({ k \in 1..Len(meal_df) : Before(k, i) })]
        n == IF top_k < Len(meal_df) THEN top_k ELSE Len(meal_df)
    IN  [pos \in 1..n |-> meal_df[CHOOSE i \in 1..Len(meal_df) : rank[i] = pos]]

-----------------------------------------------------------------------------
(* utils/recommendations.py: generate_meal_plan_with_cosine_similarity *)

\* ['breakfast', 'lunch', 'dinner'], the order of lines 82, 123 and 149
MealTypes == << sBreakfast, sLunch, sDinner >>

sNoRecipes ==
    << "N","o"," ","r","e","c","i","p","e","s"," ","a","v","a","i","l","a","b","l","e"," ","t","h","a","t"," ","m","a","t","c","h"," ","y","o","u","r"," ","p","r","e","f","e","r","e","n","c","e","s","."," ","T","r","y"," ","a","d","j","u","s","t","i","n","g"," ","f","i","l","t","e","r","s","." >>
\* f"No {meal_type} recipes found. Adjust preferences."
NoSlotError(meal_type) ==
    << "N","o"," " >> \o meal_type \o
    << " ","r","e","c","i","p","e","s"," ","f","o","u","n","d","."," ","A","d","j","u","s","t"," ","p","r","e","f","e","r","e","n","c","e","s","." >>

Digits == << "0","1","2","3","4","5","6","7","8","9" >>
\* str() of a float that is a whole number of hundredths h, 0 <= h < 1000
FormatHundredths(h) ==
    << Digits[(h \div 100) + 1], "." >> \o
    (IF h % 10 = 0 THEN << Digits[((h \div 10) % 10) + 1] >>
     ELSE << Digits[((h \div 10) % 10) + 1], Digits[(h % 10) + 1] >>)

\* A key stored with the value None (BSON null) is listed in the record's
\* "nulls" field; dict.get returns that None, not the default.
IsNone(u, k) == k \in DOMAIN u /\ "nulls" \in DOMAIN u /\ k \in u.nulls

\* line 54 calls calculate_calorie_needs, whose 10 * weight + 6.25 * height
\* - 5 * age raises TypeError when an operand is None
TargetsRaise(u) == \E k \in { "weight", "height", "age" } : IsNone(u, k)

\* the profile fields with their defaults (lines 47-52) and the targets (54-64)
CaloriesNeeded(u) ==
    calculate_calorie_needs(Get(u, "weight", 70), Get(u, "height", 170), Get(u, "age", 30),
                            Lower(Get(u, "gender", sMale)),
                            Get(u, "activity_level", sModeratelyActive),
                            Get(u, "goal", sMaintainWeight))
MacrosNeeded(u) == calculate_macros(CaloriesNeeded(u), Get(u, "goal", sMaintainWeight))
\* round((protein_goal * 4) + (carbs_goal * 4) + (fat_goal * 9))
CalorieGoal(u) ==
    LET m == MacrosNeeded(u) IN m.protein * 4 + m.carbs * 4 + m.fat * 9

\* lines 73-76
FilteredRecipes(u, df) ==
    filter_recipes_by_allergies_and_cuisines(df, Get(u, "allergies", << >>),
                                             Get(u, "preferred_cuisines", << >>))

\* filtered_df[filtered_df['meal_type'] == meal_type]
SlotRows(df, meal_type) == LET Is(row) == row.meal_type = meal_type IN RowsWhere(df, Is)

\* the slots of lines 82-85 whose candidate set is empty
EmptySlots(df) == { k \in 1..3 : Len(SlotRows(df, MealTypes[k])) = 0 }

\* user_vector = [[calorie_goal, fat_goal, carbs_goal, protein_goal]]
UserVector(u) ==
    << CalorieGoal(u), MacrosNeeded(u).fat, MacrosNeeded(u).carbs, MacrosNeeded(u).protein >>

\* a food entry of a meal: the recipe's nutrients times the multiplier
Food(name, rec, mult) ==
    [ name |-> name,
      calories |-> RMul(RInt(rec.calories), mult),
      protein  |-> RMul(RInt(rec.protein), mult),
      carbs    |-> RMul(RInt(rec.carbs), mult),
      fat      |-> RMul(RInt(rec.fat), mult) ]

FoodCalories(m) == RSum([i \in 1..Len(m.foods) |-> m.foods[i].calories])

\* min(day_plan["meals"], key=...): the first meal with the least summed calories
LowestMeal(meals) ==
    CHOOSE i \in 1..Len(meals) :
        /\ \A j \in 1..Len(meals) : RLeq(FoodCalories(meals[i]), FoodCalories(meals[j]))
        /\ \A j \in 1..(i - 1) : RLess(FoodCalories(meals[i]), FoodCalories(meals[j]))

\* the portion appended to the first meal, whatever the meals' calories
AppendFoodToFirstMeal(meals, food) ==
    [meals EXCEPT ![1].foods = Append(@, food)]

\* lowest_meal["foods"].append(extra_food)
AppendFood(meals, food) ==
    LET k == LowestMeal(meals)
    IN  [meals EXCEPT ![k].foods = Append(@, food)]

AddToTotalsCaloriesOnly(t, food) ==
    [t EXCEPT !.calories = RAdd(@, food.calories)]

\* total_calories += ...; total_protein += ...; total_carbs += ...; total_fat += ...
AddToTotals(t, food) ==
    [ calories |-> RAdd(t.calories, food.calories),
      protein  |-> RAdd(t.protein, food.protein),
      carbs    |-> RAdd(t.carbs, food.carbs),
      fat      |-> RAdd(t.fat, food.fat) ]

ZeroTotals == [ calories |-> RInt(0), protein |-> RInt(0), carbs |-> RInt(0), fat |-> RInt(0) ]

\* the base meal of a slot for a day (lines 125-138)
\* the base meal without the daily rotation: always the best of the pool
BaseMealFirstOfPool(wp, d, k) ==
    [ meal_number |-> k,
      meal_name |-> Capitalize(MealTypes[k]),
      foods |-> << Food(wp[k][1].name, wp[k][1], RInt(1)) >> ]

BaseMeal(wp, d, k) ==
    LET pool == wp[k]
        meal_idx == (d - 1) % Len(pool)
        meal_rec == pool[meal_idx + 1]
    IN  [ meal_number |-> k,
          meal_name |-> Capitalize(MealTypes[k]),
          foods |-> << Food(meal_rec.name, meal_rec, RInt(1)) >> ]

\* the while condition of line 152
BelowGoal(t, goal) == RLess(t.calories, RInt(goal - 50))

-----------------------------------------------------------------------------
(* One request to generate_meal_plan_with_cosine_similarity, step by step *)

NoResult == [ kind |-> "none" ]
NoDayPlan == [ day |-> 0, meals |-> << >>, logged |-> FALSE ]
NoMealPlan == [ user |-> << >>, daily_calories |-> 0, macros |-> << >>, days |-> << >> ]

\* lines 44-54: a None operand reaches the arithmetic of calculate_calorie_needs
GenerateTypeError ==
    /\ pc = "start"
    /\ TargetsRaise(user_data)
    /\ result' = [ kind |-> "raised", fault |-> "TypeError" ]
    /\ pc' = "raised"
    /\ UNCHANGED << user_data, recipes_df, days, calorie_goal, macros_needed, week_plan,
                    meal_plan, day, day_plan, totals, cycle_pos, pointers, loop_exit >>
    /\ UNCHANGED << targetVars, storeVars, ratingVars, scoreVars, exerciseVars, userVars, loggedVars, pageVars >>

\* lines 44-78: the filtered catalog is empty
GenerateNoRecipes ==
    /\ pc = "start"
    /\ ~ TargetsRaise(user_data)
    /\ Len(FilteredRecipes(user_data, recipes_df)) = 0
    /\ calorie_goal' = CalorieGoal(user_data)
    /\ macros_needed' = MacrosNeeded(user_data)
    /\ result' = [ kind |-> "error", error |-> sNoRecipes ]
    /\ pc' = "done"
    /\ UNCHANGED << user_data, recipes_df, days, week_plan, meal_plan, day, day_plan,
                    totals, cycle_pos, pointers, loop_exit >>
    /\ UNCHANGED << targetVars, storeVars, ratingVars, scoreVars, exerciseVars, userVars, loggedVars, pageVars >>

\* lines 44-85: a slot has no candidate row
GenerateNoSlot ==
    /\ pc = "start"
    /\ ~ TargetsRaise(user_data)
    /\ LET filtered_df == FilteredRecipes(user_data, recipes_df)
       IN  /\ Len(filtered_df) > 0
           /\ EmptySlots(filtered_df) # {}
           /\ LET k == CHOOSE k \in EmptySlots(filtered_df) :
                           \A j \in EmptySlots(filtered_df) : k <= j
              IN  result' = [ kind |-> "error", error |-> NoSlotError(MealTypes[k]) ]
    /\ calorie_goal' = CalorieGoal(user_data)
    /\ macros_needed' = MacrosNeeded(user_data)
    /\ pc' = "done"
    /\ UNCHANGED << user_data, recipes_df, days, week_plan, meal_plan, day, day_plan,
                    totals, cycle_pos, pointers, loop_exit >>
    /\ UNCHANGED << targetVars, storeVars, ratingVars, scoreVars, exerciseVars, userVars, loggedVars, pageVars >>

\* lines 44-112: the ranked pools and the empty plan
GeneratePools ==
    /\ pc = "start"
    /\ ~ TargetsRaise(user_data)
    /\ LET filtered_df == FilteredRecipes(user_data, recipes_df)
       IN  /\ Len(filtered_df) > 0
           /\ EmptySlots(filtered_df) = {}
           /\ week_plan' = [ k \in 1..3 |->
                               RankBySimilarity(SlotRows(filtered_df, MealTypes[k]),
                                                UserVector(user_data), days) ]
    /\ calorie_goal' = CalorieGoal(user_data)
    /\ macros_needed' = MacrosNeeded(user_data)
    /\ meal_plan' = [ user |-> Get(user_data, "name", sUser),
                      daily_calories |-> CalorieGoal(user_data),
                      macros |-> MacrosNeeded(user_data),
                      days |-> << >> ]
    /\ day' = 1
    /\ pc' = IF days >= 1 THEN "base" ELSE "save"
    /\ UNCHANGED << user_data, recipes_df, days, day_plan, totals, cycle_pos, pointers,
                    loop_exit, result >>
    /\ UNCHANGED << targetVars, storeVars, ratingVars, scoreVars, exerciseVars, userVars, loggedVars, pageVars >>

\* lines 114-150: the three base meals of the day
BaseMeals ==
    /\ pc = "base"
    /\ LET meals == [ k \in 1..3 |-> BaseMeal(week_plan, day, k) ]
       IN  /\ day_plan' = [ day |-> day, meals |-> meals, logged |-> FALSE ]
           /\ totals' = AddToTotals(AddToTotals(AddToTotals(ZeroTotals,
                            meals[1].foods[1]), meals[2].foods[1]), meals[3].foods[1])
    /\ cycle_pos' = 0
    /\ pointers' = [ k \in 1..3 |-> 0 ]
    /\ pc' = "topup"
    /\ UNCHANGED << user_data, recipes_df, days, calorie_goal, macros_needed, week_plan,
                    meal_plan, day, loop_exit, result >>
    /\ UNCHANGED << targetVars, storeVars, ratingVars, scoreVars, exerciseVars, userVars, loggedVars, pageVars >>

\* the slot index returned by next(meal_types_cycle)
CurrentSlot == cycle_pos + 1
\* week_plan[current_meal_type].iloc[pointer]
Candidate == week_plan[CurrentSlot][pointers[CurrentSlot] + 1]
\* line 162
Overshoots == RLess(RInt(calorie_goal + 50), RAdd(totals.calories, RInt(Candidate.calories)))
FractionPastGoal ==
    RDiv(RSub(RInt(calorie_goal + 100), totals.calories), RInt(Candidate.calories))

\* lines 164-165
Fraction == RDiv(RSub(RInt(calorie_goal), totals.calories), RInt(Candidate.calories))

\* lines 152-157: the slot's pointer is past its pool; continue
TopUpSkip ==
    /\ pc = "topup"
    /\ BelowGoal(totals, calorie_goal)
    /\ pointers[CurrentSlot] >= Len(week_plan[CurrentSlot])
    /\ cycle_pos' = (cycle_pos + 1) % 3
    /\ UNCHANGED << pc, user_data, recipes_df, days, calorie_goal, macros_needed,
                    week_plan, meal_plan, day, day_plan, totals, pointers, loop_exit,
                    result >>
    /\ UNCHANGED << targetVars, storeVars, ratingVars, scoreVars, exerciseVars, userVars, loggedVars, pageVars >>

\* lines 152-202: the whole candidate fits
TopUpFull ==
    /\ pc = "topup"
    /\ BelowGoal(totals, calorie_goal)
    /\ pointers[CurrentSlot] < Len(week_plan[CurrentSlot])
    /\ ~ Overshoots
    /\ LET extra_food == Food(Candidate.name, Candidate, RInt(1))
       IN  /\ day_plan' = [day_plan EXCEPT !.meals = AppendFood(@, extra_food)]
           /\ totals' = AddToTotals(totals, extra_food)
    /\ pointers' = [pointers EXCEPT ![CurrentSlot] = @ + 1]
    /\ cycle_pos' = (cycle_pos + 1) % 3
    /\ UNCHANGED << pc, user_data, recipes_df, days, calorie_goal, macros_needed,
                    week_plan, meal_plan, day, loop_exit, result >>
    /\ UNCHANGED << targetVars, storeVars, ratingVars, scoreVars, exerciseVars, userVars, loggedVars, pageVars >>

\* lines 152-184: the candidate overshoots and at least 40% of it closes the gap
TopUpFraction ==
    /\ pc = "topup"
    /\ BelowGoal(totals, calorie_goal)
    /\ pointers[CurrentSlot] < Len(week_plan[CurrentSlot])
    /\ Overshoots
    /\ RLeq(Rat(4, 10), Fraction)
    /\ LET extra_food ==
               Food(Candidate.name \o << " ", "(", "x" >> \o
                        FormatHundredths(RRound2(Fraction).n) \o << ")" >>,
                    Candidate, Fraction)
       IN  /\ day_plan' = [day_plan EXCEPT !.meals = AppendFood(@, extra_food)]
           /\ totals' = AddToTotals(totals, extra_food)
    /\ pointers' = [pointers EXCEPT ![CurrentSlot] = @ + 1]
    /\ cycle_pos' = (cycle_pos + 1) % 3
    /\ pc' = "break_fraction"
    /\ UNCHANGED << user_data, recipes_df, days, calorie_goal, macros_needed, week_plan,
                    meal_plan, day, loop_exit, result >>
    /\ UNCHANGED << targetVars, storeVars, ratingVars, scoreVars, exerciseVars, userVars, loggedVars, pageVars >>

\* lines 152-167, 184: the candidate overshoots and less than 40% would close the gap
TopUpReject ==
    /\ pc = "topup"
    /\ BelowGoal(totals, calorie_goal)
    /\ pointers[CurrentSlot] < Len(week_plan[CurrentSlot])
    /\ Overshoots
    /\ ~ RLeq(Rat(4, 10), Fraction)
    /\ pointers' = [pointers EXCEPT ![CurrentSlot] = @ + 1]
    /\ cycle_pos' = (cycle_pos + 1) % 3
    /\ pc' = "break_rejected"
    /\ UNCHANGED << user_data, recipes_df, days, calorie_goal, macros_needed, week_plan,
                    meal_plan, day, day_plan, totals, loop_exit, result >>
    /\ UNCHANGED << targetVars, storeVars, ratingVars, scoreVars, exerciseVars, userVars, loggedVars, pageVars >>

\* how the while loop was left: its condition false before any iteration
\* ("not_entered") or after one ("condition"), or one of the two breaks
ExitKind ==
    IF pc = "break_fraction" THEN "fraction"
    ELSE IF pc = "break_rejected" THEN "rejected"
    ELSE IF pointers[1] = 0 THEN "not_entered" ELSE "condition"

\* day_plan.update({... round(total, 1) ...})
RoundedDay(dp, t) ==
    [ day |-> dp.day, meals |-> dp.meals, logged |-> dp.logged,
      total_calories |-> RRound1(t.calories),
      total_protein  |-> RRound1(t.protein),
      total_carbs    |-> RRound1(t.carbs),
      total_fat      |-> RRound1(t.fat) ]

\* lines 205-213 and the step of the for loop of line 114
StoreTotals ==
    /\ \/ pc = "topup" /\ ~ BelowGoal(totals, calorie_goal)
       \/ pc \in { "break_fraction", "break_rejected" }
    /\ meal_plan' = [meal_plan EXCEPT !.days = Append(@, RoundedDay(day_plan, totals))]
    /\ loop_exit' = Append(loop_exit, ExitKind)
    /\ day' = day + 1
    /\ pc' = IF day < days THEN "base" ELSE "save"
    /\ UNCHANGED << user_data, recipes_df, days, calorie_goal, macros_needed, week_plan,
                    day_plan, totals, cycle_pos, pointers, result >>
    /\ UNCHANGED << targetVars, storeVars, ratingVars, scoreVars, exerciseVars, userVars, loggedVars, pageVars >>

-----------------------------------------------------------------------------
(* utils/user_management.py: the meal_plans collection *)

\* ObjectId(user_id): the key the collection stores and queries by
ObjectId(user_id) == [ oid |-> user_id ]

\* lines 146-150: the document built by save_meal_plan at time now
MealPlanEntry(user_id, plan, now) ==
    [ user_id |-> ObjectId(user_id), meal_plan |-> plan, created_at |-> now ]

InsertOneReplacingOwner(collection, entry) ==
    LET Others(doc) == doc.user_id # entry.user_id
    IN  Append(RowsWhere(collection, Others), entry)

\* meal_plans_collection.insert_one(meal_plan_entry)
InsertOne(collection, entry) == Append(collection, entry)

\* the documents find_one(filter, sort=[("created_at", -1)]) may return: those
\* of the user with the greatest created_at
LatestDocs(collection, user_id) ==
    { i \in 1..Len(collection) :
        /\ collection[i].user_id = ObjectId(user_id)
        /\ \A j \in 1..Len(collection) :
              collection[j].user_id = ObjectId(user_id)
                  => collection[j].created_at <= collection[i].created_at }

\* the documents the filter of update_logged_status matches:
\* {"user_id": ObjectId(user_id), "meal_plan.days.day": day}
MatchingDocs(collection, user_id, day_number) ==
    { i \in 1..Len(collection) :
        /\ collection[i].user_id = ObjectId(user_id)
        /\ \E k \in 1..Len(collection[i].meal_plan.days) :
              collection[i].meal_plan.days[k].day = day_number }

\* the update applied to every Day of document i with that number
SetLoggedEveryDay(collection, i, day_number, logged) ==
    [ collection EXCEPT ![i].meal_plan.days =
        [ k \in 1..Len(@) |-> [ @[k] EXCEPT !.logged = logged ] ] ]

\* {"$set": {"meal_plan.days.$.logged": logged}} applied to document i: the
\* positional operator stands for the first Day the filter matched
SetLogged(collection, i, day_number, logged) ==
    LET plan_days == collection[i].meal_plan.days
        k == CHOOSE k \in 1..Len(plan_days) :
                 /\ plan_days[k].day = day_number
                 /\ \A j \in 1..(k - 1) : plan_days[j].day # day_number
    IN  [ collection EXCEPT ![i].meal_plan.days[k].logged = logged ]

-----------------------------------------------------------------------------
(* lines 214-219 of generate_meal_plan_with_cosine_similarity *)

\* user_id = user_data.get("_id"); if user_id:
HasUserId(u) == "_id" \in DOMAIN u /\ u["_id"] # ""

\* no durable identifier: the plan is returned without a write
SaveSkip ==
    /\ pc = "save"
    /\ ~ HasUserId(user_data)
    /\ result' = [ kind |-> "plan", plan |-> meal_plan ]
    /\ pc' = "done"
    /\ UNCHANGED << user_data, recipes_df, days, calorie_goal, macros_needed, week_plan,
                    meal_plan, day, day_plan, totals, cycle_pos, pointers, loop_exit >>
    /\ UNCHANGED << targetVars, storeVars, ratingVars, scoreVars, exerciseVars, userVars, loggedVars, pageVars >>

\* save_meal_plan inserts the snapshot, then the plan is returned
SaveInsert ==
    /\ pc = "save"
    /\ HasUserId(user_data)
    /\ meal_plans_collection' =
           InsertOne(meal_plans_collection, MealPlanEntry(user_data["_id"], meal_plan, clock))
    /\ result' = [ kind |-> "plan", plan |-> meal_plan ]
    /\ pc' = "done"
    /\ UNCHANGED << user_data, recipes_df, days, calorie_goal, macros_needed, week_plan,
                    meal_plan, day, day_plan, totals, cycle_pos, pointers, loop_exit >>
    /\ UNCHANGED << targetVars, clock, sessions, store_log, ratingVars, scoreVars, exerciseVars, userVars, loggedVars, pageVars >>

\* insert_one raises (the store rejects the write or cannot be reached); nothing
\* between line 216 and the caller catches it
SaveFails ==
    /\ pc = "save"
    /\ HasUserId(user_data)
    /\ result' = [ kind |-> "raised" ]
    /\ pc' = "raised"
    /\ UNCHANGED << user_data, recipes_df, days, calorie_goal, macros_needed, week_plan,
                    meal_plan, day, day_plan, totals, cycle_pos, pointers, loop_exit >>
    /\ UNCHANGED << targetVars, storeVars, ratingVars, scoreVars, exerciseVars, userVars, loggedVars, pageVars >>

-----------------------------------------------------------------------------
(* Clients of the store: sessions calling save_meal_plan (the tail of a      *)
(* plan generation, lines 214-216) and get_meal_plan (03_Meal_Planner.py:72) *)

\* the largest number of save_meal_plan calls explored
MaxSaves == 2
\* the latest millisecond explored
MaxClock == 1

\* Streamlit runs each browser session in a thread of its own
Sessions == { "s1", "s2" }
UserIds == { "u1", "u2" }

\* Python's None
None == [ none |-> TRUE ]

\* a plan as handed to save_meal_plan: n Days with their totals
PlanOfDays(n, goal) ==
    [ user |-> sUser, daily_calories |-> RInt(goal),
      days |-> [ d \in 1..n |->
                   [ day |-> d, logged |-> FALSE, total_calories |-> RInt(goal + d) ] ] ]

SavedPlans == { PlanOfDays(1, 2650), PlanOfDays(2, 2150) }

IdleSession == [ pc |-> "idle", user_id |-> "", meal_plan |-> None, meal_plan_entry |-> None ]

NoGet == [ called |-> FALSE, user_id |-> "", plan |-> None, at |-> 0, sequential |-> TRUE ]

\* calls begun: documents inserted plus calls under way
SavesBegun ==
    Len(meal_plans_collection) + Cardinality({ s \in Sessions : sessions[s].pc # "idle" })

\* line 142: a session enters save_meal_plan(user_id, meal_plan)
SaveCall(s) ==
    /\ sessions[s].pc = "idle"
    /\ SavesBegun < MaxSaves
    /\ \E u \in UserIds, p \in SavedPlans :
          sessions' = [ sessions EXCEPT ![s] =
                           [ pc |-> "entry", user_id |-> u, meal_plan |-> p,
                             meal_plan_entry |-> None ] ]
    /\ store_log' = [ store_log EXCEPT !.overlap =
                         @ \/ \E o \in Sessions \ { s } : sessions[o].pc # "idle" ]
    /\ UNCHANGED << meal_plans_collection, clock >>
    /\ UNCHANGED << targetVars, planVars, ratingVars, scoreVars, exerciseVars, userVars, loggedVars, pageVars >>

\* lines 146-150: the entry is built in the client, created_at read from the clock
BuildEntry(s) ==
    /\ sessions[s].pc = "entry"
    /\ sessions' = [ sessions EXCEPT ![s].pc = "insert",
                                     ![s].meal_plan_entry =
                                         MealPlanEntry(sessions[s].user_id,
                                                       sessions[s].meal_plan, clock) ]
    /\ UNCHANGED << meal_plans_collection, clock, store_log >>
    /\ UNCHANGED << targetVars, planVars, ratingVars, scoreVars, exerciseVars, userVars, loggedVars, pageVars >>

\* line 151: insert_one reaches the server; the call returns
InsertEntry(s) ==
    /\ sessions[s].pc = "insert"
    /\ meal_plans_collection' = InsertOne(meal_plans_collection, sessions[s].meal_plan_entry)
    /\ sessions' = [ sessions EXCEPT ![s] = IdleSession ]
    /\ store_log' = [ store_log EXCEPT !.saved = Append(@, sessions[s].meal_plan_entry) ]
    /\ UNCHANGED clock
    /\ UNCHANGED << targetVars, planVars, ratingVars, scoreVars, exerciseVars, userVars, loggedVars, pageVars >>

\* lines 158-159: the values get_meal_plan(user_id) may return; documents with
\* equal created_at are ordered by the server as it pleases
get_meal_plan(collection, user_id) ==
    IF LatestDocs(collection, user_id) = {} THEN { None }
    ELSE { collection[i].meal_plan : i \in LatestDocs(collection, user_id) }

\* a caller reads the latest plan of a user
GetMealPlan ==
    /\ \E u \in UserIds : \E r \in get_meal_plan(meal_plans_collection, u) :
          store_log' = [ store_log EXCEPT !.last_get =
                            [ called |-> TRUE, user_id |-> u, plan |-> r,
                              at |-> Len(meal_plans_collection),
                              sequential |-> /\ ~ store_log.overlap
                                             /\ \A s \in Sessions : sessions[s].pc = "idle" ] ]
    /\ UNCHANGED << meal_plans_collection, clock, sessions >>
    /\ UNCHANGED << targetVars, planVars, ratingVars, scoreVars, exerciseVars, userVars, loggedVars, pageVars >>

\* a millisecond passes
Tick ==
    /\ clock < MaxClock
    /\ clock' = clock + 1
    /\ UNCHANGED << meal_plans_collection, sessions, store_log >>
    /\ UNCHANGED << targetVars, planVars, ratingVars, scoreVars, exerciseVars, userVars, loggedVars, pageVars >>

NextStore ==
    \/ \E s \in Sessions : SaveCall(s)
    \/ \E s \in Sessions : BuildEntry(s)
    \/ \E s \in Sessions : InsertEntry(s)
    \/ GetMealPlan
    \/ Tick

-----------------------------------------------------------------------------
(* The exercise rating table: load_user_ratings / save_user_ratings          *)
(* (utils/recommendations.py lines 15-27) and the Save Rating handler        *)
(* (pages/04_Exercise_Recommendations.py lines 241-258).                     *)
(* User ids (ObjectId hex strings) and exercise titles are text that         *)
(* read_csv leaves as text; the rating column is written as digits and       *)
(* parsed back to an integer.                                                *)

\* the largest number of Save Rating clicks explored
MaxRatingSaves == 3

\* st.slider(f"Rate {exercise_name}", 1, 5, ...)
RatingMin == 1
RatingMax == 5

ExerciseTitles == { "Push Up", "Squat" }

RatingColumns == << "user_id", "exercise_title", "rating" >>

\* os.path.exists(ratings_file) is false
MissingFile == [ exists |-> FALSE, header |-> << >>, lines |-> << >> ]

\* a rating as to_csv writes it and as read_csv parses it
RatingText(rating) == Digits[rating + 1]
ParseRating(text) == (CHOOSE d \in 1..Len(Digits) : Digits[d] = text) - 1

\* pd.read_csv(ratings_file), or the empty frame with the three columns
load_user_ratings(file) ==
    IF ~ file.exists THEN << >>
    ELSE [ i \in 1..Len(file.lines) |->
             [ user_id |-> file.lines[i][1], exercise_title |-> file.lines[i][2],
               rating |-> ParseRating(file.lines[i][3]) ] ]

\* ratings_df.to_csv(..., index=False)
save_user_ratings(ratings_df) ==
    [ exists |-> TRUE, header |-> RatingColumns,
      lines |-> [ i \in 1..Len(ratings_df) |->
                    << ratings_df[i].user_id, ratings_df[i].exercise_title,
                       RatingText(ratings_df[i].rating) >> ] ]

\* (ratings_df['user_id'] == user_id) & (ratings_df['exercise_title'] == exercise_name)
Mask(ratings_df, user_id, exercise_name) ==
    { i \in 1..Len(ratings_df) :
        ratings_df[i].user_id = user_id /\ ratings_df[i].exercise_title = exercise_name }

LocSetNothing(ratings_df, mask, current_rating) == ratings_df

\* ratings_df.loc[mask, 'rating'] = current_rating
LocSetRating(ratings_df, mask, current_rating) ==
    [ i \in 1..Len(ratings_df) |->
        IF i \in mask THEN [ ratings_df[i] EXCEPT !.rating = current_rating ]
        ELSE ratings_df[i] ]

\* drop_duplicates(subset=['user_id', 'exercise_title'], keep='last')
DropDuplicatesKeepLast(ratings_df) ==
    Pick(ratings_df,
         { i \in 1..Len(ratings_df) :
             ~ \E j \in (i + 1)..Len(ratings_df) :
                  /\ ratings_df[j].user_id = ratings_df[i].user_id
                  /\ ratings_df[j].exercise_title = ratings_df[i].exercise_title },
         1)

\* lines 248-254: update the rows under the mask or append a row, then deduplicate
Upsert(ratings_df, user_id, exercise_name, current_rating) ==
    LET mask == Mask(ratings_df, user_id, exercise_name)
        new_rating == [ user_id |-> user_id, exercise_title |-> exercise_name,
                        rating |-> current_rating ]
    IN  DropDuplicatesKeepLast(
            IF mask # {} THEN LocSetRating(ratings_df, mask, current_rating)
            ELSE Append(ratings_df, new_rating))

IdleRatingSession ==
    [ pc |-> "idle", user_id |-> "", exercise_name |-> "", current_rating |-> 0,
      ratings_df |-> << >> ]

RatingSavesBegun ==
    rating_log.count + Cardinality({ s \in Sessions : rating_sessions[s].pc # "idle" })

\* lines 244-246: the button is pressed with the slider at current_rating; the
\* table is loaded
LoadRatings(s) ==
    /\ rating_sessions[s].pc = "idle"
    /\ RatingSavesBegun < MaxRatingSaves
    /\ \E u \in UserIds, e \in ExerciseTitles, r \in RatingMin..RatingMax :
          rating_sessions' = [ rating_sessions EXCEPT ![s] =
                                 [ pc |-> "loaded", user_id |-> u, exercise_name |-> e,
                                   current_rating |-> r,
                                   ratings_df |-> load_user_ratings(ratings_csv) ] ]
    /\ rating_log' = [ rating_log EXCEPT !.overlap =
                          @ \/ \E o \in Sessions \ { s } : rating_sessions[o].pc # "idle" ]
    /\ UNCHANGED ratings_csv
    /\ UNCHANGED << targetVars, planVars, storeVars, scoreVars, exerciseVars, userVars, loggedVars, pageVars >>

\* lines 248-255: the row is upserted in the loaded table and the whole table
\* is written back
WriteRatings(s) ==
    LET me == rating_sessions[s]
        written == save_user_ratings(
                       Upsert(me.ratings_df, me.user_id, me.exercise_name, me.current_rating))
    IN  /\ me.pc = "loaded"
        /\ ratings_csv' = written
        /\ rating_sessions' = [ rating_sessions EXCEPT ![s] = IdleRatingSession ]
        /\ rating_log' = [ rating_log EXCEPT
                              !.count = @ + 1,
                              !.latest[<< me.user_id, me.exercise_name >>] = me.current_rating ]
        /\ UNCHANGED << targetVars, planVars, storeVars, scoreVars, exerciseVars, userVars, loggedVars, pageVars >>

NextRatings ==
    \/ \E s \in Sessions : LoadRatings(s)
    \/ \E s \in Sessions : WriteRatings(s)


-----------------------------------------------------------------------------
(* utils/recommendations.py: recommend_foods_by_goal *)

RMax(a, b) == IF RLess(a, b) THEN b ELSE a

\* the same number in lowest terms
Lowest(a) == LET g == Gcd(Abs(a.n), a.d) IN Rat(a.n \div g, a.d \div g)

\* a missing cell of a DataFrame, and the result of a failed to_numeric
NaN == [ nan |-> TRUE ]

NumericChars == { "0","1","2","3","4","5","6","7","8","9","." }

\* .astype(str).str.replace(r'[^0-9.]+', '', regex=True)
KeepNumeric(s) == SelectSeq(s, LAMBDA c : c \in NumericChars)

DigitOf(c) == CHOOSE k \in 0..9 : Digits[k + 1] = c

RECURSIVE DigitsValue(_)
DigitsValue(s) ==
    IF s = << >> THEN 0
    ELSE 10 * DigitsValue(SubSeq(s, 1, Len(s) - 1)) + DigitOf(s[Len(s)])

RECURSIVE Pow10(_)
Pow10(k) == IF k = 0 THEN 1 ELSE 10 * Pow10(k - 1)

\* pd.to_numeric(..., errors='coerce'): digits with at most one point, else NaN
ToNumeric(s) ==
    LET dots == { i \in 1..Len(s) : s[i] = "." }
    IN  IF Cardinality(dots) > 1 \/ Len(s) = Cardinality(dots) THEN NaN
        ELSE IF dots = {} THEN RInt(DigitsValue(s))
        ELSE LET at == CHOOSE i \in dots : TRUE
                 whole == SubSeq(s, 1, at - 1)
                 frac == SubSeq(s, at + 1, Len(s))
             IN  Lowest(Rat(DigitsValue(whole) * Pow10(Len(frac)) + DigitsValue(frac),
                            Pow10(Len(frac))))

\* .fillna(0)
Fillna0(x) == IF x = NaN THEN RInt(0) ELSE x

\* lines 261-270: the unit columns of one row made numeric
unit_cols == { "Protein", "Fibre", "Sugars_percent" }
SanitizeRow(recipe) ==
    [ col \in DOMAIN recipe |->
        IF col \in unit_cols THEN Fillna0(ToNumeric(KeepNumeric(recipe[col])))
        ELSE recipe[col] ]

\* line 277: pd.isna(Calories) or Calories <= 0
SkippedMissingOnly(recipe) == Get(recipe, "Calories", RInt(0)) = NaN

Skipped(recipe) ==
    \/ Get(recipe, "Calories", RInt(0)) = NaN
    \/ RLeq(Get(recipe, "Calories", RInt(0)), RInt(0))

\* lines 280-303: the score of a row with positive calories.  The code
\* computes it in doubles; the model keeps the exact value.
GoalScore(recipe, goal) ==
    LET Calories == Get(recipe, "Calories", RInt(0))
        Protein == Get(recipe, "Protein", RInt(0))
        Fibre == Get(recipe, "Fibre", RInt(0))
        Sugars == Get(recipe, "Sugars_percent", RInt(0))
        per == RMax(Get(recipe, "Calories", RInt(1)), RInt(1))
        protein_per_calorie == Lowest(RDiv(Protein, per))
        fibre_per_calorie == Lowest(RDiv(Fibre, per))
        calorie_density == Lowest(RDiv(Calories, RInt(100)))
        nutrition_density == Lowest(RDiv(RAdd(Protein, RMul(Fibre, RInt(2))), per))
    IN  IF Contains(goal, sWeightLossKey)
        THEN Lowest(RSub(Lowest(RAdd(RMul(protein_per_calorie, RInt(5)),
                                     RMul(fibre_per_calorie, RInt(3)))),
                         Lowest(RMul(Sugars, Rat(1, 10)))))
        ELSE IF Contains(goal, sWeightGainKey)
        THEN Lowest(RAdd(RMul(calorie_density, RInt(3)), RMul(protein_per_calorie, RInt(2))))
        ELSE IF Contains(goal, sMuscleGainKey)
        THEN Lowest(RAdd(RMul(Protein, RInt(2)), RMul(protein_per_calorie, RInt(5))))
        ELSE Lowest(RMul(nutrition_density, RInt(5)))

\* lines 273-304
Scores(filtered_recipes, goal) ==
    [ i \in 1..Len(filtered_recipes) |->
        IF Skipped(filtered_recipes[i]) THEN RInt(-1)
        ELSE GoalScore(filtered_recipes[i], goal) ]

\* sort_values('score', ascending=False): the orders of the row positions with
\* non-increasing score; the default sort kind does not fix the order of ties
SortedOrders(scores) ==
    { p \in Permutations(1..Len(scores)) :
        \A i, j \in 1..Len(scores) : i < j => ~ RLess(scores[p[i]], scores[p[j]]) }

\* .head(n)
Head_(s, n) == SubSeq(s, 1, IF n < Len(s) THEN n ELSE Len(s))

\* lines 309-335: the entry returned for a row
Recommendation(recipe) ==
    [ name |-> Get(recipe, "Product_Name", << >>),
      calories |-> Get(recipe, "Calories", RInt(0)),
      protein |-> Get(recipe, "Protein", RInt(0)) ]

NoRecommendations ==
    [ done |-> FALSE, scores |-> << >>, top_recommendations |-> << >>,
      recommendations |-> << >> ]

\* the whole call
recommend_foods_by_goal ==
    /\ ~ rf_out.done
    /\ LET filtered_recipes ==
               [ i \in 1..Len(rf_in.recipe_data) |-> SanitizeRow(rf_in.recipe_data[i]) ]
           goal == Lower(Get(rf_in.user_data, "goal", << >>))
           scores == Scores(filtered_recipes, goal)
       IN  IF Len(rf_in.recipe_data) = 0
           THEN rf_out' = [ NoRecommendations EXCEPT !.done = TRUE ]
           ELSE \E order \in SortedOrders(scores) :
                  LET top == Head_(order, rf_in.num_recommendations)
                      kept == SelectSeq(top, LAMBDA i : RLess(RInt(0), scores[i]))
                  IN  rf_out' =
                        [ done |-> TRUE,
                          scores |-> scores,
                          top_recommendations |-> top,
                          recommendations |->
                              [ k \in 1..Len(kept) |-> Recommendation(filtered_recipes[kept[k]]) ] ]
    /\ UNCHANGED rf_in
    /\ UNCHANGED << targetVars, planVars, storeVars, ratingVars, exerciseVars, userVars, loggedVars, pageVars >>

-----------------------------------------------------------------------------
(* utils/recommendations.py: recommend_exercises and the plan level *)

sBeginner == << "B","e","g","i","n","n","e","r" >>
sIntermediate == << "I","n","t","e","r","m","e","d","i","a","t","e" >>
sExpert == << "E","x","p","e","r","t" >>
sCardio == << "C","a","r","d","i","o" >>
sStrength == << "S","t","r","e","n","g","t","h" >>
sFlexibility == << "F","l","e","x","i","b","i","l","i","t","y" >>
sHealthy == << "H","e","a","l","t","h","y" >>
sNone == << "N","o","n","e" >>

\* line 628-641: 0.252 w + 0.131 h - 9.0 + 0.1 age for 'female', else
\* 0.407 w + 0.267 h - 19.2 + 0.1 age, clamped to [5, 50]; in thousandths
calculate_body_fat_percentage(u) ==
    LET weight == Get(u, "weight", 70)
        height == Get(u, "height", 170)
        age == Get(u, "age", 30)
        gender == Lower(Get(u, "gender", sMale))
        bfp == IF gender = sFemale
               THEN 252 * weight + 131 * height - 9000 + 100 * age
               ELSE 407 * weight + 267 * height - 19200 + 100 * age
    IN  Rat(IF bfp < 5000 THEN 5000 ELSE IF bfp > 50000 THEN 50000 ELSE bfp, 1000)

\* weight / ((height / 100) ** 2)
BmiOf(weight, height) == Rat(weight * 10000, height * height)

\* lines 653-676: the plan level 1..7
get_exercise_recommendation_plan(u) ==
    LET stored == Get(u, "bmi", RInt(0))
        bmi == IF stored.n = 0
               THEN BmiOf(Get(u, "weight", 70), Get(u, "height", 170))
               ELSE stored
        bfp == calculate_body_fat_percentage(u)
        Below(x, k) == RLess(x, RInt(k))
    IN  IF Below(bfp, 15) /\ Below(bmi, 25) THEN 7
        ELSE IF Below(bfp, 20) /\ Below(bmi, 27) THEN 6
        ELSE IF Below(bfp, 25) /\ Below(bmi, 30) THEN 5
        ELSE IF Below(bfp, 30) /\ Below(bmi, 32) THEN 4
        ELSE IF Below(bfp, 35) /\ Below(bmi, 35) THEN 3
        ELSE IF Below(bfp, 40) THEN 2
        ELSE 1

\* a None operand reaches the arithmetic of line 363 (weight / height), the
\* body-fat formula or age < 30; a stored bmi of None is compared with a
\* number by the first test of the plan level whose bfp part holds
ExercisesRaise(u) ==
    \/ \E k \in { "weight", "height", "age" } : IsNone(u, k)
    \/ /\ IsNone(u, "bmi")
       /\ RLess(calculate_body_fat_percentage(u), RInt(35))

\* the first level kept, whatever the cap
FirstLevel(a, b) == a

\* ['Beginner', 'Intermediate', 'Expert'].index(x)
LevelIndex(x) == IF x = sBeginner THEN 0 ELSE IF x = sIntermediate THEN 1 ELSE 2
MinLevel(a, b) == IF LevelIndex(b) < LevelIndex(a) THEN b ELSE a

low_intensity_conditions == << << "h","e","a","r","t" >>, << "d","i","a","b","e","t","e","s" >>, << "r","e","s","p","i","r","a","t","o","r","y" >>, << "j","o","i","n","t" >>, << "k","n","e","e"," ","p","a","i","n" >>, << "b","a","c","k"," ","p","a","i","n" >> >>

\* age_group == 'Older'
Older(u) == Get(u, "age", 30) > 50

\* activity_map.get(activity_level, activity_map['moderately active'])
ActivitySettings(u) ==
    LET activity_level == Lower(Get(u, "activity_level", << "M","o","d","e","r","a","t","e","l","y"," ","A","c","t","i","v","e" >>))
    IN  CASE activity_level = << "s","e","d","e","n","t","a","r","y" >> -> [ level |-> sBeginner, days |-> 3, sets |-> 2 ]
          [] activity_level = << "l","i","g","h","t","l","y"," ","a","c","t","i","v","e" >> -> [ level |-> sBeginner, days |-> 4, sets |-> 3 ]
          [] activity_level = << "m","o","d","e","r","a","t","e","l","y"," ","a","c","t","i","v","e" >> -> [ level |-> sIntermediate, days |-> 5, sets |-> 4 ]
          [] activity_level = << "v","e","r","y"," ","a","c","t","i","v","e" >> -> [ level |-> sExpert, days |-> 6, sets |-> 5 ]
          [] OTHER -> [ level |-> sIntermediate, days |-> 5, sets |-> 4 ]

\* lines 368-391
IntensityLevel(u) ==
    LET exercise_plan == get_exercise_recommendation_plan(u)
        health_status == Lower(Get(u, "health_status", sHealthy))
        health_conditions == Lower(Get(u, "health_conditions", sNone))
        by_plan == IF exercise_plan <= 3 THEN sBeginner
                   ELSE IF exercise_plan >= 6 THEN sExpert ELSE sIntermediate
        by_health ==
            IF \/ health_status \in { << "u","n","d","e","r","w","e","i","g","h","t" >>, << "o","b","e","s","e" >>, << "p","o","o","r" >> }
               \/ \E c \in 1..Len(low_intensity_conditions) :
                      Contains(health_conditions, low_intensity_conditions[c])
            THEN sBeginner
            ELSE IF health_status = << "m","o","d","e","r","a","t","e" >> THEN MinLevel(by_plan, sIntermediate)
            ELSE by_plan
        by_age == IF Older(u) THEN sBeginner ELSE by_health
    IN  MinLevel(by_age, ActivitySettings(u).level)


\* lines 394-399: the goal's weights, in hundredths (0.5 is 50)
BaseWeights(goal) ==
    CASE goal = sWeightLoss -> [ Cardio |-> 50, Strength |-> 30, Flexibility |-> 20 ]
      [] goal = sMuscleGain -> [ Cardio |-> 20, Strength |-> 60, Flexibility |-> 20 ]
      [] goal = sWeightGain -> [ Cardio |-> 10, Strength |-> 70, Flexibility |-> 20 ]
      [] OTHER -> [ Cardio |-> 30, Strength |-> 40, Flexibility |-> 30 ]

Min2(a, b) == IF b < a THEN b ELSE a
Max2(a, b) == IF a < b THEN b ELSE a

\* lines 402-405: gender == 'female'
FemaleWeights(w) ==
    LET f == Min2(40, w.Flexibility + 10)
        s == Max2(20, w.Strength - 5)
        c == Max2(10, 100 - s - f)
    IN  [ Cardio |-> c, Strength |-> s, Flexibility |-> f ]

\* lines 408-411: age_group == 'Older'
OlderWeights(w) ==
    LET f == Min2(50, w.Flexibility + 20)
        c == Max2(20, w.Cardio - 10)
        s == Max2(10, 100 - c - f)
    IN  [ Cardio |-> c, Strength |-> s, Flexibility |-> f ]

\* lines 394-411: the weights before they are divided by their sum, in hundredths
Weights(u) ==
    LET w0 == BaseWeights(Get(u, "goal", sMaintainWeight))
        w1 == IF Lower(Get(u, "gender", sMale)) = sFemale THEN FemaleWeights(w0) ELSE w0
    IN  IF Older(u) THEN OlderWeights(w1) ELSE w1

WeightOf(weights, category) ==
    CASE category = sCardio -> weights.Cardio
      [] category = sStrength -> weights.Strength
      [] OTHER -> weights.Flexibility

\* The quotient num_recommendations * weight / sum is computed in doubles and
\* truncated by int(); for these profiles and counts the double lies just
\* below the whole number that the exact value equals.
InexactQuota(u, num_recommendations, category) ==
    LET goal == Get(u, "goal", sMaintainWeight)
        female == Lower(Get(u, "gender", sMale)) = sFemale
    IN  \/ /\ goal = sWeightLoss /\ ~ female /\ Older(u)
           /\ category = sStrength /\ num_recommendations \in { 5, 10 }
        \/ /\ goal \notin { sWeightLoss, sMuscleGain, sWeightGain }
           /\ female /\ ~ Older(u)
           /\ category = sCardio /\ num_recommendations \in { 4, 8, 12 }

\* lines 414-417 and 560: each weight over the sum of the weights, then
\* int(num_recommendations * weights.get(category, 0.0) / sum(weights.values()))
NumEx(u, num_recommendations, category) ==
    LET weights == Weights(u)
        total == weights.Cardio + weights.Strength + weights.Flexibility
        exact == FloorDiv(num_recommendations * WeightOf(weights, category), total)
    IN  IF InexactQuota(u, num_recommendations, category) THEN exact - 1 ELSE exact

\* line 425: the keys of recommendations, in order
Categories == << sCardio, sStrength, sFlexibility >>

\* lines 432-437: condition -> column -> excluded values
condition_exclusions ==
    << [ condition |-> << "k","n","e","e"," ","p","a","i","n" >>,
         exclusions |-> << [ key |-> "BodyPart", values |-> << << "Q","u","a","d","r","i","c","e","p","s" >>, << "H","a","m","s","t","r","i","n","g","s" >>, << "C","a","l","v","e","s" >> >> ],
                           [ key |-> "Type", values |-> << << "H","I","I","T" >>, << "P","l","y","o","m","e","t","r","i","c","s" >> >> ] >> ],
       [ condition |-> << "b","a","c","k"," ","p","a","i","n" >>,
         exclusions |-> << [ key |-> "BodyPart", values |-> << << "L","o","w","e","r"," ","B","a","c","k" >> >> ],
                           [ key |-> "Equipment", values |-> << << "B","a","r","b","e","l","l" >> >> ] >> ],
       [ condition |-> << "h","e","a","r","t" >>,
         exclusions |-> << [ key |-> "Type", values |-> << << "H","I","I","T" >>, << "P","l","y","o","m","e","t","r","i","c","s" >> >> ],
                           [ key |-> "Level", values |-> << << "E","x","p","e","r","t" >> >> ] >> ],
       [ condition |-> << "j","o","i","n","t" >>,
         exclusions |-> << [ key |-> "Type", values |-> << << "P","l","y","o","m","e","t","r","i","c","s" >> >> ],
                           [ key |-> "Equipment", values |-> << << "B","a","r","b","e","l","l" >> >> ] >> ] >>

\* lines 455-459
exercise_categories ==
    << << << "C","a","r","d","i","o" >>, << "H","I","I","T" >>, << "A","e","r","o","b","i","c" >> >>,
       << << "S","t","r","e","n","g","t","h" >>, << "O","l","y","m","p","i","c"," ","W","e","i","g","h","t","l","i","f","t","i","n","g" >>, << "P","l","y","o","m","e","t","r","i","c","s" >>, << "P","o","w","e","r","l","i","f","t","i","n","g" >>, << "S","t","r","o","n","g","m","a","n" >> >>,
       << << "S","t","r","e","t","c","h","i","n","g" >>, << "Y","o","g","a" >>, << "M","o","b","i","l","i","t","y" >>, << "F","l","e","x","i","b","i","l","i","t","y" >> >> >>

\* lines 462-466, in the order of the dict: Upper Body, Core, Lower Body
muscle_groups ==
    << << << "S","h","o","u","l","d","e","r","s" >>, << "C","h","e","s","t" >>, << "U","p","p","e","r"," ","B","a","c","k" >>, << "L","a","t","s" >>, << "B","i","c","e","p","s" >>, << "T","r","i","c","e","p","s" >>, << "F","o","r","e","a","r","m","s" >>, << "T","r","a","p","e","z","i","u","s" >> >>,
       << << "A","b","d","o","m","i","n","a","l","s" >>, << "O","b","l","i","q","u","e","s" >>, << "L","o","w","e","r"," ","B","a","c","k" >>, << "C","o","r","e" >> >>,
       << << "Q","u","a","d","r","i","c","e","p","s" >>, << "H","a","m","s","t","r","i","n","g","s" >>, << "G","l","u","t","e","s" >>, << "C","a","l","v","e","s" >>, << "A","d","d","u","c","t","o","r","s" >>, << "A","b","d","u","c","t","o","r","s" >> >> >>

\* series.str.contains('|'.join(values), case=False, na=False) for one cell
ContainsAny(text, values) ==
    \E v \in 1..Len(values) : Contains(Lower(text), Lower(values[v]))

\* no row dropped for a condition
ExcludedNever(row, health_conditions) == FALSE

\* lines 439-443: the row is dropped for a condition named in health_conditions
Excluded(row, health_conditions) ==
    \E c \in 1..Len(condition_exclusions) :
        /\ Contains(health_conditions, condition_exclusions[c].condition)
        /\ \E e \in 1..Len(condition_exclusions[c].exclusions) :
              ContainsAny(row[condition_exclusions[c].exclusions[e].key],
                          condition_exclusions[c].exclusions[e].values)

\* lines 446-451
AllowedLevels(intensity_level) ==
    IF intensity_level = sExpert THEN { sExpert, sIntermediate }
    ELSE IF intensity_level = sIntermediate THEN { sIntermediate, sBeginner }
    ELSE { sBeginner }

\* lines 439-451: df
FilteredExercises(u, exercise_data) ==
    LET health_conditions == Lower(Get(u, "health_conditions", sNone))
        Keep(row) == /\ ~ Excluded(row, health_conditions)
                     /\ row.Level \in AllowedLevels(IntensityLevel(u))
    IN  RowsWhere(exercise_data, Keep)

Default3(exercise_data) ==
    [ i \in 1..Len(exercise_data) |->
        [ title |-> exercise_data[i].Title, pred_rating |-> RInt(3) ] ]

\* lines 476-507 for a rating table with one rater: the rater is the only
\* neighbour and has the whole weight, so the prediction for a title among
\* the columns of the matrix is that rater's rating of it
NeighbourPredictions(ratings_df, exercise_data, user_id) ==
    LET rated_exercises ==
            { ratings_df[i].exercise_title :
                i \in { i \in 1..Len(ratings_df) : ratings_df[i].user_id = user_id } }
        columns == { ratings_df[i].exercise_title : i \in 1..Len(ratings_df) }
        RatingOf(ex) ==
            LET i == CHOOSE i \in 1..Len(ratings_df) : ratings_df[i].exercise_title = ex
            IN  RInt(ratings_df[i].rating)
        Unrated(row) == row.Title \notin rated_exercises
        unrated == RowsWhere(exercise_data, Unrated)
    IN  [ i \in 1..Len(unrated) |->
            [ title |-> unrated[i].Title,
              pred_rating |-> IF unrated[i].Title \in columns
                              THEN RatingOf(unrated[i].Title) ELSE RInt(3) ] ]

\* lines 467-514
Predictions(ratings_df, exercise_data, user_id) ==
    IF Len(ratings_df) = 0 THEN Default3(exercise_data)
    ELSE NeighbourPredictions(ratings_df, exercise_data, user_id)

\* the first category a keyword of which is in the type, else by the muscle
CategoryOf(exercise_type, main_muscle) ==
    IF \E c \in 1..3 : ContainsAny(exercise_type, exercise_categories[c])
    THEN Categories[CHOOSE c \in 1..3 :
                        /\ ContainsAny(exercise_type, exercise_categories[c])
                        /\ \A b \in 1..(c - 1) : ~ ContainsAny(exercise_type, exercise_categories[b])]
    ELSE IF \E g \in 1..3 : ContainsAny(main_muscle, muscle_groups[g])
    THEN sStrength
    ELSE sFlexibility

\* lines 531-542
ExerciseDict(exercise, pred_rating, sets) ==
    [ name |-> exercise.Title,
      type |-> Strip(exercise.Type),
      main_muscle |-> Strip(exercise.BodyPart),
      equipment |-> exercise.Equipment,
      level |-> exercise.Level,
      rating |-> exercise.Rating,
      sets |-> sets,
      predicted_rating |-> pred_rating ]

\* lines 515-543: (category, exercise_dict) for each prediction whose title is in df
RECURSIVE PredictedExercises(_, _, _)
PredictedExercises(predictions, df, sets) ==
    IF predictions = << >> THEN << >>
    ELSE LET p == Head(predictions)
             rows == { i \in 1..Len(df) : df[i].Title = p.title }
         IN  (IF rows = {} THEN << >>
              ELSE LET exercise == df[CHOOSE i \in rows : \A j \in rows : i <= j]
                   IN  << [ category |-> CategoryOf(Strip(exercise.Type), Strip(exercise.BodyPart)),
                            exercise |-> ExerciseDict(exercise, p.pred_rating, sets) ] >>)
             \o PredictedExercises(Tail(predictions), df, sets)

\* lines 519-522: without predictions, the rows of df from the best Rating
\* down, each predicted its own Rating
Fallback(df, order) ==
    [ k \in 1..Len(order) |->
        [ title |-> df[order[k]].Title, pred_rating |-> df[order[k]].Rating ] ]

\* list.sort(key=predicted_rating, reverse=True) for keys that are numbers:
\* a stable sort
RECURSIVE SortByPredicted(_)
SortByPredicted(exs) ==
    IF exs = << >> THEN << >>
    ELSE LET first == CHOOSE i \in 1..Len(exs) :
                 /\ \A j \in 1..Len(exs) : ~ RLess(exs[i].predicted_rating, exs[j].predicted_rating)
                 /\ \A j \in 1..(i - 1) : RLess(exs[j].predicted_rating, exs[i].predicted_rating)
         IN  << exs[first] >> \o
             SortByPredicted(SubSeq(exs, 1, first - 1) \o SubSeq(exs, first + 1, Len(exs)))

\* lines 554-565: the bucket of a strength exercise: 1 Upper Body, 2 Core, 3 Lower Body
MuscleGroupOf(ex) ==
    IF \E g \in 1..3 : ContainsAny(ex.main_muscle, muscle_groups[g])
    THEN CHOOSE g \in 1..3 :
             /\ ContainsAny(ex.main_muscle, muscle_groups[g])
             /\ \A b \in 1..(g - 1) : ~ ContainsAny(ex.main_muscle, muscle_groups[b])
    ELSE 2


\* lines 553-584
StrengthRecommendations(cat_exercises, num_ex) ==
    LET Bucket(g) == SelectSeq(cat_exercises, LAMBDA ex : MuscleGroupOf(ex) = g)
        upper_count == Max2(1, (num_ex * 4) \div 10)
        lower_count == Max2(1, (num_ex * 4) \div 10)
        core_count == Max2(1, num_ex - upper_count - lower_count)
        strength_recommendations ==
            Head_(Bucket(1), upper_count) \o Head_(Bucket(3), lower_count)
                \o Head_(Bucket(2), core_count)
        remaining == num_ex - Len(strength_recommendations)
        available == SelectSeq(cat_exercises,
                               LAMBDA ex : \A k \in 1..Len(strength_recommendations) :
                                               strength_recommendations[k] # ex)
    IN  IF remaining > 0 THEN strength_recommendations \o Head_(available, remaining)
        ELSE strength_recommendations

\* lines 545-586: the selection for one category
Selected(predicted_exercises, category, num_ex) ==
    LET of_cat == SelectSeq(predicted_exercises, LAMBDA p : p.category = category)
        cat_exercises == SortByPredicted([ i \in 1..Len(of_cat) |-> of_cat[i].exercise ])
    IN  IF num_ex = 0 THEN << >>
        ELSE IF category = sStrength /\ cat_exercises # << >>
        THEN StrengthRecommendations(cat_exercises, num_ex)
        ELSE Head_(cat_exercises, num_ex)

\* line 591: the rows of df whose Type contains a keyword of the category
CategoryRows(df, c) ==
    LET InCategory(row) == ContainsAny(row.Type, exercise_categories[c])
    IN  RowsWhere(df, InCategory)

\* cat_df.sort_values('Rating', ascending=False): the orders with non-increasing
\* Rating and the missing ratings last; the order of equal ratings is not fixed
RatingOrders(cat_df) ==
    { p \in Permutations(1..Len(cat_df)) :
        \A i, j \in 1..Len(cat_df) :
            i < j => /\ cat_df[p[i]].Rating = NaN => cat_df[p[j]].Rating = NaN
                     /\ (cat_df[p[i]].Rating # NaN /\ cat_df[p[j]].Rating # NaN)
                            => ~ RLess(cat_df[p[i]].Rating, cat_df[p[j]].Rating) }

\* lines 596-609: the entry appended for a row of the raw catalog
TopUpDict(exercise, sets) ==
    [ name |-> exercise.Title,
      type |-> exercise.Type,
      main_muscle |-> exercise.BodyPart,
      equipment |-> exercise.Equipment,
      level |-> exercise.Level,
      rating |-> exercise.Rating,
      sets |-> sets,
      predicted_rating |-> RInt(3) ]

\* lines 589-610 for one category and one order of the sorted slice
ToppedUp(exercises, df, c, num_ex, order, sets) ==
    LET cat_df == CategoryRows(df, c)
        num_needed == num_ex - Len(exercises)
        sampled == Head_(order, num_needed)
    IN  IF Len(exercises) < num_ex /\ Len(cat_df) > 0
        THEN exercises \o [ k \in 1..Len(sampled) |-> TopUpDict(cat_df[sampled[k]], sets) ]
        ELSE exercises

NoExercises == [ kind |-> "none" ]

\* the whole call; load_user_ratings() reads the ratings file.  Each value
\* the function computes once is bound once (\E over a one-element set).
recommend_exercises ==
    /\ ex_out = NoExercises
    /\ LET u == ex_in.user_data
           exercise_data == ex_in.exercise_data
           n == ex_in.num_recommendations
       IN  IF Len(exercise_data) = 0
           THEN ex_out' = [ kind |-> "error", error |-> << "N","o"," ","e","x","e","r","c","i","s","e"," ","d","a","t","a"," ","a","v","a","i","l","a","b","l","e" >> ]
           ELSE IF ExercisesRaise(u)
           THEN ex_out' = [ kind |-> "raised", fault |-> "TypeError" ]
           ELSE \E user_id \in { Get(u, "user_id", "default_user") },
                   sets \in { ActivitySettings(u).sets },
                   df \in { FilteredExercises(u, exercise_data) },
                   quota \in { << NumEx(u, n, sCardio), NumEx(u, n, sStrength),
                                  NumEx(u, n, sFlexibility) >> } :
                \E knn \in { Predictions(load_user_ratings(ratings_csv), exercise_data, user_id) } :
                \E o0 \in (IF knn = << >> THEN RatingOrders(df) ELSE { << >> }) :
                \E predicted_exercises \in
                       { PredictedExercises(IF knn = << >> THEN Fallback(df, o0) ELSE knn,
                                            df, sets) } :
                \E selected \in { << Selected(predicted_exercises, sCardio, quota[1]),
                                     Selected(predicted_exercises, sStrength, quota[2]),
                                     Selected(predicted_exercises, sFlexibility, quota[3]) >> } :
                \E o1 \in RatingOrders(CategoryRows(df, 1)),
                   o2 \in RatingOrders(CategoryRows(df, 2)),
                   o3 \in RatingOrders(CategoryRows(df, 3)) :
                    ex_out' = [ kind |-> "recommendations",
                                Cardio |-> ToppedUp(selected[1], df, 1, quota[1], o1, sets),
                                Strength |-> ToppedUp(selected[2], df, 2, quota[2], o2, sets),
                                Flexibility |-> ToppedUp(selected[3], df, 3, quota[3], o3, sets) ]
    /\ UNCHANGED ex_in
    /\ UNCHANGED << targetVars, planVars, storeVars, ratingVars, scoreVars, userVars, loggedVars, pageVars >>

(* utils/user_management.py: the users collection *)

\* find_one found nothing
NoUser == [ absent |-> TRUE ]

\* the most progress entries a user is given
MaxProgress == 2

\* lines 24-46: the document register_user inserts; None for the numbers
NewUser ==
    [ profile_complete |-> FALSE, gender |-> << >>, age |-> 0, height |-> 0, weight |-> 0,
      bmi |-> RInt(0), goal |-> << >>, activity_level |-> << >>,
      health_conditions |-> << >>, progress_history |-> << >>, health_status |-> << >>,
      nulls |-> { "age", "height", "weight", "bmi" } ]

\* lines 62-67 and 108
HealthStatusOf(bmi) ==
    IF RLeq(Rat(185, 10), bmi) /\ RLess(bmi, Rat(249, 10)) THEN sHealthy
    ELSE IF RLess(bmi, Rat(185, 10)) THEN << "U","n","d","e","r","w","e","i","g","h","t" >>
    ELSE IF RLeq(Rat(249, 10), bmi) /\ RLess(bmi, Rat(299, 10)) THEN << "O","v","e","r","w","e","i","g","h","t" >>
    ELSE << "O","b","e","s","e" >>

\* update_one(..., {"$set": data}): the keys of data replace the stored ones
SetFields(user, data) ==
    [ k \in DOMAIN user \cup DOMAIN data |->
        IF k = "nulls" THEN user.nulls \ DOMAIN data
        ELSE IF k \in DOMAIN data THEN data[k] ELSE user[k] ]

\* isinstance(v, (int, float)) and v: a stored number other than 0
TruthyNumber(user, data, k) ==
    IF k \in DOMAIN data THEN data[k] # 0
    ELSE ~ IsNone(user, k) /\ user[k] # 0

\* update_user without lines 54-69
DataAsGiven(user, data) == data

\* lines 54-69: data with bmi and health_status added when both are numbers
WithBmi(user, data) ==
    IF ("height" \in DOMAIN data \/ "weight" \in DOMAIN data)
       /\ TruthyNumber(user, data, "height") /\ TruthyNumber(user, data, "weight")
    THEN LET height == Get(data, "height", user.height)
             weight == Get(data, "weight", user.weight)
             bmi == BmiOf(weight, height)
         IN  [ k \in DOMAIN data \cup { "bmi", "health_status" } |->
                 IF k = "bmi" THEN bmi
                 ELSE IF k = "health_status" THEN HealthStatusOf(bmi)
                 ELSE data[k] ]
    ELSE data

\* what the create form (lines 376-394 of 02_Profile.py) and the edit form
\* (lines 253-266) hand to update_user: the numbers are within the inputs' ranges
ProfileForms ==
    { [ gender |-> sMale, age |-> 30, height |-> h, weight |-> w, goal |-> sWeightLoss,
        activity_level |-> sSedentary, health_conditions |-> << >>,
        profile_complete |-> TRUE ] : h \in { FormHeightMin, 170 }, w \in { 70 } }
    \cup
    { [ gender |-> sMale, age |-> 30, height |-> h, weight |-> w, goal |-> sWeightLoss,
        activity_level |-> sSedentary, health_conditions |-> sNone ] :
        h \in { FormHeightMin, 170 }, w \in { 70 } }

\* the weights entered on the progress forms
ProgressWeights == { 85 }

\* lines 17-49, for a username not yet taken: the id is new
register_user ==
    /\ \E id \in UserIds :
          /\ users_collection[id] = NoUser
          /\ users_collection' = [ users_collection EXCEPT ![id] = NewUser ]
          /\ user_log' = [ op |-> "register_user", id |-> id, ok |-> TRUE ]
    /\ UNCHANGED << targetVars, planVars, storeVars, ratingVars, scoreVars, exerciseVars, loggedVars, pageVars >>

\* lines 51-78; user.get on the None of an unknown id raises inside the try
update_user ==
    /\ \E id \in UserIds, data \in ProfileForms :
          LET user == users_collection[id]
              stored == IF user = NoUser THEN user ELSE SetFields(user, WithBmi(user, data))
          IN  /\ users_collection' = [ users_collection EXCEPT ![id] = stored ]
              /\ user_log' = [ op |-> "update_user", id |-> id, ok |-> stored # user ]
    /\ UNCHANGED << targetVars, planVars, storeVars, ratingVars, scoreVars, exerciseVars, loggedVars, pageVars >>

\* lines 100-129; a height of None raises inside the try and nothing is written
update_user_progress ==
    /\ \E id \in UserIds, weight \in ProgressWeights :
          LET user == users_collection[id]
          IN  IF user = NoUser \/ IsNone(user, "height")
              THEN /\ user_log' = [ op |-> "update_user_progress", id |-> id, ok |-> FALSE ]
                   /\ UNCHANGED users_collection
              ELSE LET bmi == BmiOf(weight, user.height)
                       progress_entry == [ weight |-> weight, bmi |-> bmi ]
                   IN  /\ Len(user.progress_history) < MaxProgress
                       /\ users_collection' =
                              [ users_collection EXCEPT ![id] =
                                  SetFields([ user EXCEPT !.progress_history =
                                                              Append(@, progress_entry) ],
                                            [ weight |-> weight, bmi |-> bmi,
                                              health_status |-> HealthStatusOf(bmi) ]) ]
                       /\ user_log' = [ op |-> "update_user_progress", id |-> id, ok |-> TRUE ]
    /\ UNCHANGED << targetVars, planVars, storeVars, ratingVars, scoreVars, exerciseVars, loggedVars, pageVars >>

NextUsers == register_user \/ update_user \/ update_user_progress

-----------------------------------------------------------------------------
(* pages/03_Meal_Planner.py: what main does with the generated result *)

\* the keys of the dict generate_meal_plan_with_cosine_similarity returned
ResultKeys ==
    IF result.kind = "error" THEN { "error" }
    ELSE { "user", "daily_calories", "macros", "days" }

PageIdle == page = [ pc |-> "idle", shown |-> "none", read |-> {}, fault |-> "none" ]

\* meal_plan[key] for each key in turn: the keys read, up to and including the
\* first one the dict lacks
RECURSIVE KeysRead(_)
KeysRead(keys) ==
    IF keys = << >> THEN {}
    ELSE IF Head(keys) \notin ResultKeys THEN { Head(keys) }
    ELSE { Head(keys) } \cup KeysRead(Tail(keys))

\* the script reads the keys and stops at a missing one with KeyError
ReadKeys(keys, next_pc) ==
    page' = [ page EXCEPT !.read = @ \cup KeysRead(keys),
                          !.pc = IF KeysRead(keys) \subseteq ResultKeys THEN next_pc ELSE "raised",
                          !.fault = IF KeysRead(keys) \subseteq ResultKeys THEN "none" ELSE "KeyError" ]

\* lines 125-131: st.error(meal_plan["error"]) or display_meal_plan
ShowResult ==
    /\ pc = "done"
    /\ page.pc = "idle"
    /\ IF "error" \in ResultKeys
       THEN page' = [ page EXCEPT !.pc = "shown", !.shown = "error", !.read = { "error" } ]
       ELSE page' = [ page EXCEPT !.pc = "shown", !.shown = "plan",
                                  !.read = { "days", "daily_calories" } ]
    /\ UNCHANGED << targetVars, planVars, storeVars, ratingVars, scoreVars, exerciseVars,
                    userVars, loggedVars >>

\* lines 138-140 and 310-341: plan_text = convert_plan_to_text(meal_plan)
ConvertPlanToText ==
    /\ page.pc = "shown"
    /\ ReadKeys(<< "user", "daily_calories", "macros", "days" >>, "text")
    /\ UNCHANGED << targetVars, planVars, storeVars, ratingVars, scoreVars, exerciseVars,
                    userVars, loggedVars >>

\* lines 149-151 and 343-357: shopping_list = create_shopping_list(meal_plan)
CreateShoppingList ==
    /\ page.pc = "text"
    /\ ReadKeys(<< "days" >>, "listed")
    /\ UNCHANGED << targetVars, planVars, storeVars, ratingVars, scoreVars, exerciseVars,
                    userVars, loggedVars >>

-----------------------------------------------------------------------------
(* The requests explored: profiles as stored by the profile form, catalogs *)

\* the largest days argument explored (the page's slider allows 1..30)
MaxDays == 2

sModeratelyActiveStored == << "m","o","d","e","r","a","t","e","l","y"," ","a","c","t","i","v","e" >>
sName == << "s","a","m" >>

StoredProfile(goal, allergies, cuisines) ==
    [ name |-> sName, weight |-> 70, height |-> 175, age |-> 25, gender |-> sMale,
      goal |-> goal, activity_level |-> sModeratelyActiveStored,
      allergies |-> allergies, preferred_cuisines |-> cuisines ]

\* the record register_user inserts: empty texts, None for the numbers
RegisteredProfile ==
    [ name |-> << >>, gender |-> << >>, age |-> 0, height |-> 0, weight |-> 0,
      goal |-> << >>, activity_level |-> << >>, allergies |-> << >>,
      preferred_cuisines |-> << >>, nulls |-> { "age", "height", "weight" } ]

WithId(u, id) == [ k \in DOMAIN u \cup { "_id" } |-> IF k = "_id" THEN id ELSE u[k] ]

Profiles ==
    { WithId(StoredProfile(sMaintainWeight, << >>, << >>), "u1"),
      WithId(StoredProfile(sWeightLoss, << sEgg >>, << >>), "u1"),
      StoredProfile(sWeightGain, << >>, << sThai >>),
      WithId(StoredProfile(sMuscleGain, << sNut >>, << sItalian >>), "u2"),
      StoredProfile(sNotSpecified, << >>, << sGreek, sItalian >>),
      WithId([ StoredProfile(sWeightLoss, << >>, << >>) EXCEPT
                 !.weight = 60, !.height = 160, !.age = 40, !.gender = sFemale,
                 !.activity_level = sSedentary ], "u2"),
      StoredProfile(sWeightGain, << sEgg >>, << >>),
      WithId(RegisteredProfile, "u1") }

\* the sampled catalogs: nothing loaded, every choice of three or four rows, all rows
CatalogSizes == { 0, 3, 4, Len(AllRecipes) }
Catalogs ==
    { Pick(AllRecipes, K, 1) :
        K \in { K \in SUBSET (1..Len(AllRecipes)) : Cardinality(K) \in CatalogSizes } }

\* rows of recipe_details.csv: zero, missing and negative calories, texts
\* with units, a text that is no number, two rows in the same proportions
RecipeDetails ==
    << [ Product_Name |-> << "w","a","t","e","r" >>, Calories |-> RInt(0),
         Protein |-> << "1","0","g" >>, Fibre |-> << "2","g" >>, Sugars_percent |-> << "5","%" >> ],
       [ Product_Name |-> << "s","a","l","a","d" >>, Calories |-> RInt(200),
         Protein |-> << "2","0","g" >>, Fibre |-> << "4","g" >>, Sugars_percent |-> << "5","%" >> ],
       [ Product_Name |-> << "m","y","s","t","e","r","y" >>, Calories |-> NaN,
         Protein |-> << "1","0","g" >>, Fibre |-> << "2","g" >>, Sugars_percent |-> << "5","%" >> ],
       [ Product_Name |-> << "r","e","f","u","n","d" >>, Calories |-> RInt(-50),
         Protein |-> << "1","0","g" >>, Fibre |-> << "2","g" >>, Sugars_percent |-> << "5","%" >> ],
       [ Product_Name |-> << "c","a","k","e" >>, Calories |-> RInt(400),
         Protein |-> << "8","g" >>, Fibre |-> << "1","g" >>, Sugars_percent |-> << "3","0","%" >> ],
       [ Product_Name |-> << "w","r","a","p" >>, Calories |-> RInt(100),
         Protein |-> << "1","0","g" >>, Fibre |-> << "2","g" >>, Sugars_percent |-> << "2",".","5","%" >> ],
       [ Product_Name |-> << "b","r","o","t","h" >>, Calories |-> RInt(300),
         Protein |-> << "n","/","a" >>, Fibre |-> << "1",".","5","g" >>, Sugars_percent |-> << "1",".","2",".","3" >> ] >>

\* the longest recipe list and the largest num_recommendations explored
MaxRecipes == 3
MaxTopN == 3

\* rows of the exercise catalog: the three categories, types that name no
\* category, every level, equal and missing ratings
Exercises ==
    << [ Title |-> "Push Up", Type |-> << "S","t","r","e","n","g","t","h" >>, BodyPart |-> << "C","h","e","s","t" >>,
         Equipment |-> << "B","o","d","y"," ","O","n","l","y" >>, Level |-> sBeginner, Rating |-> RInt(9) ],
       [ Title |-> "Squat", Type |-> << "S","t","r","e","n","g","t","h" >>, BodyPart |-> << "Q","u","a","d","r","i","c","e","p","s" >>,
         Equipment |-> << "B","a","r","b","e","l","l" >>, Level |-> sBeginner, Rating |-> RInt(8) ],
       [ Title |-> "Jog", Type |-> << "C","a","r","d","i","o" >>, BodyPart |-> << "Q","u","a","d","r","i","c","e","p","s" >>,
         Equipment |-> << "N","o","n","e" >>, Level |-> sBeginner, Rating |-> RInt(7) ],
       [ Title |-> "Burpee", Type |-> << "P","l","y","o","m","e","t","r","i","c","s" >>, BodyPart |-> << "Q","u","a","d","r","i","c","e","p","s" >>,
         Equipment |-> << "B","o","d","y"," ","O","n","l","y" >>, Level |-> sIntermediate, Rating |-> NaN ],
       [ Title |-> "Crunch", Type |-> << " ","s","t","r","e","n","g","t","h"," " >>, BodyPart |-> << "A","b","d","o","m","i","n","a","l","s" >>,
         Equipment |-> << "B","o","d","y"," ","O","n","l","y" >>, Level |-> sBeginner, Rating |-> RInt(8) ],
       [ Title |-> "Cobra", Type |-> << "S","t","r","e","t","c","h","i","n","g" >>, BodyPart |-> << "L","o","w","e","r"," ","B","a","c","k" >>,
         Equipment |-> << "B","o","d","y"," ","O","n","l","y" >>, Level |-> sBeginner, Rating |-> NaN ],
       [ Title |-> "Carry", Type |-> << "O","t","h","e","r" >>, BodyPart |-> << "F","o","r","e","a","r","m","s" >>,
         Equipment |-> << "D","u","m","b","b","e","l","l" >>, Level |-> sBeginner, Rating |-> RInt(6) ],
       [ Title |-> "Snatch", Type |-> << "O","l","y","m","p","i","c"," ","W","e","i","g","h","t","l","i","f","t","i","n","g" >>, BodyPart |-> << "S","h","o","u","l","d","e","r","s" >>,
         Equipment |-> << "B","a","r","b","e","l","l" >>, Level |-> sExpert, Rating |-> RInt(9) ] >>

\* nothing loaded, the whole catalog, the two exercises of the rating table
ExerciseCatalogs == { << >>, Exercises, SubSeq(Exercises, 1, 2) }

\* the demo user of the exercise page (lines 38-49)
DemoUser ==
    [ user_id |-> "demo_user", name |-> << "D","e","m","o"," ","U","s","e","r" >>, gender |-> sMale, height |-> 170,
      weight |-> 70, age |-> 30, activity_level |-> << "M","o","d","e","r","a","t","e","l","y"," ","A","c","t","i","v","e" >>,
      goal |-> sWeightLoss, health_status |-> sHealthy, health_conditions |-> sNone ]

\* a record as get_user returns it after the profile form was saved
CompleteUser(id, gender, height, weight, age, activity_level, goal, health_conditions) ==
    [ _id |-> id, gender |-> gender, height |-> height, weight |-> weight, age |-> age,
      bmi |-> BmiOf(weight, height), activity_level |-> activity_level, goal |-> goal,
      health_status |-> HealthStatusOf(BmiOf(weight, height)),
      health_conditions |-> health_conditions ]

\* a record as get_user returns it right after register_user
RegisteredUser ==
    [ _id |-> "u1", name |-> << >>, gender |-> << >>, age |-> 0, height |-> 0, weight |-> 0,
      bmi |-> RInt(0), goal |-> << >>, activity_level |-> << >>,
      health_conditions |-> << >>, health_status |-> << >>,
      nulls |-> { "age", "height", "weight", "bmi" } ]

ExerciseUsers ==
    { DemoUser,
      RegisteredUser,
      CompleteUser("u1", sFemale, 160, 60, 40, sSedentary, sMaintainWeight, << "k","n","e","e"," ","p","a","i","n" >>),
      CompleteUser("u2", sFemale, 150, 50, 20, sVeryActiveStored, sMuscleGain, << >>),
      CompleteUser("u2", sMale, 180, 90, 60, sLightlyActiveStored, sWeightLoss, << "B","a","c","k"," ","P","a","i","n" >>),
      CompleteUser("u2", sFemale, 100, 20, 10, sVeryActiveStored, sMuscleGain, << >>),
      CompleteUser("u2", sFemale, 100, 20, 10, sSedentary, sMaintainWeight, << >>),
      CompleteUser("u2", sFemale, 100, 20, 10, sVeryActiveStored, sMuscleGain, << "H","e","a","r","t"," ","d","i","s","e","a","s","e" >>),
      CompleteUser("u2", sFemale, 160, 45, 20, sVeryActiveStored, sWeightGain, << >>),
      CompleteUser("u2", sFemale, 100, 20, 55, sVeryActiveStored, sMaintainWeight, << >>),
      [ user_id |-> "u1", goal |-> sWeightGain ] }

\* the ratings file: absent, without rows, one rater with one or two ratings
RatingHistories ==
    { MissingFile,
      save_user_ratings(<< >>),
      save_user_ratings(<< [ user_id |-> "u1", exercise_title |-> "Push Up", rating |-> 5 ] >>),
      save_user_ratings(<< [ user_id |-> "u1", exercise_title |-> "Push Up", rating |-> 5 ],
                           [ user_id |-> "u1", exercise_title |-> "Squat", rating |-> 4 ] >>) }

\* the num_recommendations explored (the page passes 10)
ExerciseCounts == { 2, 4, 5, 10 }

ExerciseInputs ==
    [ user_data : ExerciseUsers, exercise_data : ExerciseCatalogs,
      num_recommendations : ExerciseCounts ]

ScoreInputs ==
    [ user_data : { [ goal |-> g ] :
                      g \in { sWeightLoss, sWeightGain, sMaintainWeight, sMuscleGain, << >> } },
      recipe_data : UNION { [ 1..n -> { RecipeDetails[i] : i \in 1..Len(RecipeDetails) } ] :
                            n \in 0..MaxRecipes },
      num_recommendations : 1..MaxTopN ]

\* calculate_calorie_needs and calculate_macros applied to one profile, as
\* lines 47-58 of generate_meal_plan_with_cosine_similarity apply them

\* the ends of the form's ranges and the profile of the documented scenarios
TargetInputs ==
    [ weight : { FormWeightMin, 70, FormWeightMax },
      height : { FormHeightMin, 175, FormHeightMax },
      age : { FormAgeMin, 25, FormAgeMax },
      gender : { sMale, sFemale, sOther },
      activity_level : { sSedentary, sLightlyActive, sModeratelyActive, sVeryActive,
                         sExtraActive, sLightlyActiveStored, sModeratelyActiveStored,
                         sVeryActiveStored },
      goal : { sWeightLoss, sWeightGain, sMaintainWeight, sMuscleGain, sNotSpecified } ]

NoTargets == [ done |-> FALSE, calories |-> 0, macros |-> << >> ]

ComputeTargets ==
    /\ ~ t_out.done
    /\ LET calories_needed ==
               calculate_calorie_needs(t_in.weight, t_in.height, t_in.age, Lower(t_in.gender),
                                       t_in.activity_level, t_in.goal)
       IN  t_out' = [ done |-> TRUE, calories |-> calories_needed,
                      macros |-> calculate_macros(calories_needed, t_in.goal) ]
    /\ UNCHANGED t_in
    /\ UNCHANGED << planVars, storeVars, ratingVars, scoreVars, exerciseVars, userVars, loggedVars, pageVars >>

-----------------------------------------------------------------------------
(* The states before any call *)

PlanIdle ==
    /\ pc = "idle"
    /\ user_data = << >>
    /\ recipes_df = << >>
    /\ days = 0
    /\ calorie_goal = 0
    /\ macros_needed = << >>
    /\ week_plan = << >>
    /\ meal_plan = NoMealPlan
    /\ day = 0
    /\ day_plan = NoDayPlan
    /\ totals = ZeroTotals
    /\ cycle_pos = 0
    /\ pointers = << >>
    /\ loop_exit = << >>
    /\ result = NoResult

TargetsIdle ==
    /\ t_in = << >>
    /\ t_out = NoTargets

StoreIdle ==
    /\ meal_plans_collection = << >>
    /\ clock = 0
    /\ sessions = [ s \in Sessions |-> IdleSession ]
    /\ store_log = [ saved |-> << >>, overlap |-> FALSE, last_get |-> NoGet ]

ScoreIdle ==
    /\ rf_in = << >>
    /\ rf_out = NoRecommendations

ExercisesIdle ==
    /\ ex_in = << >>
    /\ ex_out = NoExercises

LoggedIdle ==
    logged_call = [ count |-> 0, user_id |-> "", day |-> 0, logged |-> FALSE ]

UsersIdle ==
    /\ users_collection = [ id \in UserIds |-> NoUser ]
    /\ user_log = [ op |-> "none", id |-> "none", ok |-> TRUE ]

RatingsIdle ==
    /\ ratings_csv = MissingFile
    /\ rating_sessions = [ s \in Sessions |-> IdleRatingSession ]
    /\ rating_log = [ count |-> 0, overlap |-> FALSE,
                      latest |-> [ k \in UserIds \X ExerciseTitles |-> 0 ] ]


\* the most calls of update_logged_status explored
MaxLogCalls == 2

\* lines 161-169: update_one changes one of the matching documents, the one
\* the server finds first; without a match nothing is written
update_logged_status ==
    /\ logged_call.count < MaxLogCalls
    /\ \E u \in UserIds, d \in 1..MaxDays, v \in BOOLEAN :
          /\ logged_call' = [ count |-> logged_call.count + 1, user_id |-> u, day |-> d,
                              logged |-> v ]
          /\ IF MatchingDocs(meal_plans_collection, u, d) = {}
             THEN UNCHANGED meal_plans_collection
             ELSE \E i \in MatchingDocs(meal_plans_collection, u, d) :
                     meal_plans_collection' = SetLogged(meal_plans_collection, i, d, v)
    /\ UNCHANGED << clock, sessions, store_log >>
    /\ UNCHANGED << targetVars, planVars, ratingVars, scoreVars, exerciseVars, userVars, pageVars >>

\* a caller passes a profile and a days argument; load_optimized_meals() yields
\* the catalog (line 68)
Request ==
    /\ pc = "idle"
    /\ \E u \in Profiles, df \in Catalogs, n \in 1..MaxDays :
          /\ user_data' = u
          /\ recipes_df' = df
          /\ days' = n
    /\ pc' = "start"
    /\ UNCHANGED << calorie_goal, macros_needed, week_plan, meal_plan, day, day_plan,
                    totals, cycle_pos, pointers, loop_exit, result >>
    /\ UNCHANGED << targetVars, storeVars, ratingVars, scoreVars, exerciseVars, userVars, loggedVars, pageVars >>

Init ==
    /\ PlanIdle
    /\ TargetsIdle
    /\ StoreIdle
    /\ RatingsIdle
    /\ ScoreIdle
    /\ ExercisesIdle
    /\ UsersIdle
    /\ LoggedIdle
    /\ PageIdle

Next ==
    \/ Request
    \/ GenerateTypeError
    \/ GenerateNoRecipes
    \/ GenerateNoSlot
    \/ GeneratePools
    \/ BaseMeals
    \/ TopUpSkip
    \/ TopUpFull
    \/ TopUpFraction
    \/ TopUpReject
    \/ StoreTotals
    \/ SaveSkip
    \/ SaveInsert
    \/ SaveFails

Spec == Init /\ [][Next]_vars

\* one call of the target functions on each sampled profile
InitTargets ==
    /\ PlanIdle
    /\ StoreIdle
    /\ RatingsIdle
    /\ ScoreIdle
    /\ ExercisesIdle
    /\ UsersIdle
    /\ LoggedIdle
    /\ PageIdle
    /\ t_in \in TargetInputs
    /\ t_out = NoTargets

SpecTargets == InitTargets /\ [][ComputeTargets]_vars

\* one call of recommend_foods_by_goal on each sampled input
InitScore ==
    /\ PlanIdle
    /\ TargetsIdle
    /\ StoreIdle
    /\ RatingsIdle
    /\ rf_in \in ScoreInputs
    /\ rf_out = NoRecommendations
    /\ ExercisesIdle
    /\ UsersIdle
    /\ LoggedIdle
    /\ PageIdle

SpecScore == InitScore /\ [][recommend_foods_by_goal]_vars

\* recommend_exercises applied to one user, one catalog and one ratings file
InitExercises ==
    /\ PlanIdle
    /\ TargetsIdle
    /\ StoreIdle
    /\ ScoreIdle
    /\ ratings_csv \in RatingHistories
    /\ rating_sessions = [ s \in Sessions |-> IdleRatingSession ]
    /\ rating_log = [ count |-> 0, overlap |-> FALSE,
                      latest |-> [ k \in UserIds \X ExerciseTitles |-> 0 ] ]
    /\ ex_in \in ExerciseInputs
    /\ ex_out = NoExercises
    /\ UsersIdle
    /\ LoggedIdle
    /\ PageIdle

SpecExercises == InitExercises /\ [][recommend_exercises]_vars

\* a generation and the logging of Days, in a store that holds nothing or an
\* older snapshot of user u1
InitLogged ==
    /\ PlanIdle
    /\ TargetsIdle
    /\ meal_plans_collection \in
           { << >>, << MealPlanEntry("u1", PlanOfDays(2, 2150), 0) >> }
    /\ clock = 1
    /\ sessions = [ s \in Sessions |-> IdleSession ]
    /\ store_log = [ saved |-> << >>, overlap |-> FALSE, last_get |-> NoGet ]
    /\ RatingsIdle
    /\ ScoreIdle
    /\ ExercisesIdle
    /\ UsersIdle
    /\ LoggedIdle
    /\ PageIdle

\* 03_Meal_Planner.py:88-92: a Day is logged on the page once the generation
\* has returned
LogDay == pc = "done" /\ update_logged_status

NextLogged == Next \/ LogDay

SpecLogged == InitLogged /\ [][NextLogged]_vars

\* the operations on the users collection, one after another
NextPage == Next \/ ShowResult \/ ConvertPlanToText \/ CreateShoppingList

\* a request from the meal planner page and the script that follows it
SpecPage == Init /\ [][NextPage]_vars

SpecUsers == Init /\ [][NextUsers]_vars

\* sessions saving and reading meal plans while time passes
SpecStore == Init /\ [][NextStore]_vars

\* sessions saving exercise ratings
SpecRatings == Init /\ [][NextRatings]_vars

\* The request is one synchronous call: a step of the function body that is
\* possible is taken.  Fairness is stated for the steps after the ranking (the
\* Day loop, the top-up loop, the save).
FairSpec ==
    /\ Init /\ [][Next]_vars
    /\ WF_vars(BaseMeals)
    /\ WF_vars(TopUpSkip) /\ WF_vars(TopUpFull)
    /\ WF_vars(TopUpFraction) /\ WF_vars(TopUpReject)
    /\ WF_vars(StoreTotals)
    /\ WF_vars(SaveSkip) /\ WF_vars(SaveInsert) /\ WF_vars(SaveFails)

-----------------------------------------------------------------------------
(* Properties of plan generation *)

Returned == pc = "done" /\ result.kind = "plan"

\* C1: the top-up loop of every Day terminates and the request returns a
\* result (or leaves by a fault of the store), whatever the profile, the
\* catalog and the days argument, also when all three pointers have run past
\* their pools while the Day is still below calorie_goal - 50.
PlanGenerationTerminates == (pc = "topup") ~> (pc \in { "done", "raised" })

\* the state the loop of line 152 cannot leave: below the band with every
\* pointer past its pool
PoolsExhaustedBelowGoal ==
    /\ pc = "topup"
    /\ BelowGoal(totals, calorie_goal)
    /\ \A k \in 1..3 : pointers[k] >= Len(week_plan[k])

InBand(x, goal) == RLeq(RInt(goal - 50), x) /\ RLeq(x, RInt(goal + 50))

\* C2 (as stated): in a returned plan every Day whose loop ended otherwise than
\* by pool exhaustion has total_calories within [calorie_goal - 50, calorie_goal + 50],
\* Days that never entered the loop and Days ended by an overshooting candidate
\* included.
EveryDayInBand ==
    Returned =>
        \A i \in 1..Len(result.plan.days) :
            InBand(result.plan.days[i].total_calories, calorie_goal)

\* C2 (amended): a Day whose loop ran and ended by its condition or by adding a
\* fractional portion is within the band; a Day that never entered the loop is
\* at or above calorie_goal - 50; a Day whose loop broke on a rejected candidate
\* is below calorie_goal - 50.
DayInBandByExit ==
    Returned =>
        \A i \in 1..Len(result.plan.days) :
            LET total == result.plan.days[i].total_calories
            IN  /\ loop_exit[i] \in { "condition", "fraction" } => InBand(total, calorie_goal)
                /\ loop_exit[i] = "not_entered" => RLeq(RInt(calorie_goal - 50), total)
                /\ loop_exit[i] = "rejected" => RLess(total, RInt(calorie_goal - 50))

\* a returned plan with one Day ended by the loop condition after a full top-up
\* and one Day ended by a fractional portion
DaysEndedByConditionAndFraction ==
    /\ Returned
    /\ \E i \in 1..Len(loop_exit) : loop_exit[i] = "condition"
    /\ \E i \in 1..Len(loop_exit) : loop_exit[i] = "fraction"

\* every food of every meal of a Day
RECURSIVE FoodsOf(_)
FoodsOf(meals) == IF meals = << >> THEN << >> ELSE Head(meals).foods \o FoodsOf(Tail(meals))

WithinTenth(a, b) == LET diff == RSub(a, b) IN 10 * Abs(diff.n) <= diff.d

\* C3: in a returned plan each stored Day total equals, within 0.1, the sum of
\* that field over all foods of all meals of the Day.
TotalsMatchPortions ==
    Returned =>
        \A i \in 1..Len(result.plan.days) :
            LET d == result.plan.days[i]
                foods == FoodsOf(d.meals)
            IN  /\ WithinTenth(d.total_calories, RSum([k \in 1..Len(foods) |-> foods[k].calories]))
                /\ WithinTenth(d.total_protein, RSum([k \in 1..Len(foods) |-> foods[k].protein]))
                /\ WithinTenth(d.total_carbs, RSum([k \in 1..Len(foods) |-> foods[k].carbs]))
                /\ WithinTenth(d.total_fat, RSum([k \in 1..Len(foods) |-> foods[k].fat]))

\* a returned plan with a Day holding base meals, a full top-up and a
\* fractional top-up
DayWithFullAndFractionalTopUp ==
    /\ Returned
    /\ \E i \in 1..Len(result.plan.days) :
          /\ loop_exit[i] = "fraction"
          /\ Len(FoodsOf(result.plan.days[i].meals)) >= 5

\* the request's filtered catalog is empty or lacks a slot
NoCandidates ==
    /\ pc # "idle"
    /\ \/ Len(FilteredRecipes(user_data, recipes_df)) = 0
       \/ EmptySlots(FilteredRecipes(user_data, recipes_df)) # {}

FirstEmptySlot(df) == CHOOSE k \in EmptySlots(df) : \A j \in EmptySlots(df) : k <= j

\* C4: with an empty filtered catalog or an empty slot the request returns an
\* error string (naming the first empty slot), raises nothing, builds no Day
\* and writes no snapshot.
NoCandidatesGivesError ==
    NoCandidates =>
        /\ pc \in { "start", "done" }
        /\ meal_plan.days = << >>
        /\ day_plan = NoDayPlan
        /\ meal_plans_collection = << >>
        /\ pc = "done" =>
              /\ result.kind = "error"
              /\ result.error =
                     IF Len(FilteredRecipes(user_data, recipes_df)) = 0 THEN sNoRecipes
                     ELSE NoSlotError(MealTypes[FirstEmptySlot(FilteredRecipes(user_data, recipes_df))])

\* a request answered with the error naming dinner, and one with no recipe left
ErrorNamesDinner ==
    /\ pc = "done"
    /\ result.kind = "error"
    /\ result.error = NoSlotError(sDinner)
    /\ Len(recipes_df) > 0

\* C5: an assembled plan is returned whatever becomes of the write: one
\* snapshot when the profile has a durable identifier, none otherwise, and the
\* plan is returned also when the store write fails.
PlanReturnedRegardlessOfPersistence ==
    (pc \in { "done", "raised" } /\ ~ NoCandidates) =>
        /\ result.kind = "plan"
        /\ result.plan = meal_plan
        /\ Len(meal_plans_collection) <= 1
        /\ Len(meal_plans_collection) = 1 <=> HasUserId(user_data)

-----------------------------------------------------------------------------
(* Properties of the meal-plan store *)

\* same number of Days and the same totals Day by Day; None only matches None
SamePlanStructure(a, b) ==
    IF a = None \/ b = None THEN a = b
    ELSE /\ Len(a.days) = Len(b.days)
         /\ \A i \in 1..Len(a.days) : a.days[i].total_calories = b.days[i].total_calories

\* the plan of the last of the saves owned by user_id, None when there is none
LastSavedOf(saved, user_id) ==
    LET own == { i \in 1..Len(saved) : saved[i].user_id = ObjectId(user_id) }
    IN  IF own = {} THEN None
        ELSE saved[CHOOSE i \in own : \A j \in own : j <= i].meal_plan

\* C6: when the calls are made one after another, get_meal_plan(u) returns the
\* plan of the most recent save_meal_plan(u, p) (so a get right after a save
\* returns that plan), never a plan of another user, and None when u has saved
\* nothing.
GetReturnsMostRecentSnapshot ==
    LET g == store_log.last_get
    IN  (g.called /\ g.sequential) =>
            SamePlanStructure(g.plan, LastSavedOf(SubSeq(store_log.saved, 1, g.at), g.user_id))

\* the documents of user_id among the first n
OwnDocs(collection, n, user_id) ==
    { i \in 1..n : collection[i].user_id = ObjectId(user_id) }

\* C7: the snapshots of saves whose steps interleave are all retained, in the
\* order of their insertion, none overwritten or removed; and get_meal_plan
\* returns a plan of the user whose snapshot carries the highest created_at.
ConcurrentSnapshotsRetained ==
    /\ Len(meal_plans_collection) = Len(store_log.saved)
    /\ \A i \in 1..Len(store_log.saved) : meal_plans_collection[i] = store_log.saved[i]
    /\ LET g == store_log.last_get
           own == OwnDocs(meal_plans_collection, g.at, g.user_id)
       IN  g.called =>
               IF own = {} THEN g.plan = None
               ELSE \E i \in own :
                       /\ meal_plans_collection[i].meal_plan = g.plan
                       /\ \A j \in own : meal_plans_collection[j].created_at
                                             <= meal_plans_collection[i].created_at

\* two saves of one user raced: the entry built first was inserted last; both
\* snapshots are stored and the get returned the one with the later created_at
RacingSavesBothRetained ==
    /\ store_log.overlap
    /\ Len(meal_plans_collection) = 2
    /\ meal_plans_collection[1].user_id = meal_plans_collection[2].user_id
    /\ meal_plans_collection[1].meal_plan # meal_plans_collection[2].meal_plan
    /\ meal_plans_collection[1].created_at > meal_plans_collection[2].created_at
    /\ store_log.last_get.called
    /\ store_log.last_get.at = 2
    /\ ObjectId(store_log.last_get.user_id) = meal_plans_collection[1].user_id
    /\ store_log.last_get.plan = meal_plans_collection[1].meal_plan

-----------------------------------------------------------------------------
(* Properties of the rating table *)

\* the rows of every pair but (user_id, exercise_name), in table order
OtherRows(ratings_df, user_id, exercise_name) ==
    LET Other(row) == ~ (row.user_id = user_id /\ row.exercise_title = exercise_name)
    IN  RowsWhere(ratings_df, Other)

\* the table holds no row for a pair never rated and exactly one row for a
\* rated pair, carrying the rating last submitted for it, a value in 1..5
OneRowPerRatedPair ==
    LET ratings_df == load_user_ratings(ratings_csv)
    IN  \A u \in UserIds, e \in ExerciseTitles :
            LET rows == Mask(ratings_df, u, e)
                latest == rating_log.latest[<< u, e >>]
            IN  IF latest = 0 THEN rows = {}
                ELSE /\ Cardinality(rows) = 1
                     /\ \A i \in rows : ratings_df[i].rating = latest
                     /\ latest \in 1..5

\* the write of session s leaves the rows of every pair but its own as they were
OtherPairsKept(s) ==
    (rating_sessions[s].pc = "loaded" /\ rating_sessions'[s].pc = "idle") =>
        OtherRows(load_user_ratings(ratings_csv'), rating_sessions[s].user_id,
                  rating_sessions[s].exercise_name)
            = OtherRows(load_user_ratings(ratings_csv), rating_sessions[s].user_id,
                        rating_sessions[s].exercise_name)

\* C8: after Save Rating actions performed one after another, the table holds
\* at most one row per (user, exercise title) pair, carrying the rating last
\* submitted for the pair, a value in 1..5; and each save leaves the rows of
\* every other pair unchanged.
OneRatingPerPairLatestValue ==
    /\ [](~ rating_log.overlap => OneRowPerRatedPair)
    /\ [][~ rating_log.overlap => \A s \in Sessions : OtherPairsKept(s)]_vars

\* three saves one after another left two rows: a pair was rated a second
\* time while another pair has a row
RatingReplacedBesideOtherPair ==
    /\ ~ rating_log.overlap
    /\ rating_log.count = 3
    /\ Len(load_user_ratings(ratings_csv)) = 2
    /\ \A s \in Sessions : rating_sessions[s].pc = "idle"

-----------------------------------------------------------------------------
(* Properties of the targets *)

\* the formula as the specification states it, over the closed categories:
\* four times the sex term, the multiplier times 1000, the goal adjustment and
\* the percentage split <<protein, fat, carbs>>
SexTerm4(gender) == IF gender = sMale THEN 20 ELSE -644

TableMultiplier(activity_level) ==
    CASE activity_level = sSedentary -> 1200
      [] activity_level = sLightlyActive -> 1375
      [] activity_level = sModeratelyActive -> 1550
      [] activity_level = sVeryActive -> 1725
      [] activity_level = sExtraActive -> 1900
      [] OTHER -> 1550

TableAdjustment(goal) ==
    CASE goal = sWeightLoss -> -500
      [] goal = sWeightGain -> 500
      [] goal = sMuscleGain -> 300
      [] OTHER -> 0

TableSplit(goal) ==
    CASE goal = sMuscleGain -> << 30, 25, 45 >>
      [] goal = sWeightLoss -> << 35, 30, 35 >>
      [] goal = sWeightGain -> << 20, 30, 50 >>
      [] OTHER -> << 25, 30, 45 >>

\* grams is a whole number nearest to n / d
NearestTo(grams, n, d) == 2 * Abs(grams * d - n) <= d

ScenarioProfile(goal) ==
    [ weight |-> 70, height |-> 175, age |-> 25, gender |-> sMale,
      activity_level |-> sModeratelyActive, goal |-> goal ]

\* the general part: the calories are the multiple of 50 nearest to the
\* formula's value and each macro is the whole number of grams nearest to
\* calories * pct / kcal-per-gram
TargetsNearestToFormula ==
    LET exact4000 == (40 * t_in.weight + 25 * t_in.height - 20 * t_in.age
                          + SexTerm4(t_in.gender)) * TableMultiplier(t_in.activity_level)
                     + 4000 * TableAdjustment(t_in.goal)
        calories == t_out.calories
        split == TableSplit(t_in.goal)
    IN  /\ calories % 50 = 0
        /\ Abs(4000 * calories - exact4000) <= 25 * 4000
        /\ NearestTo(t_out.macros.protein, calories * split[1], 400)
        /\ NearestTo(t_out.macros.fat, calories * split[2], 900)
        /\ NearestTo(t_out.macros.carbs, calories * split[3], 400)

\* C9 (as stated): the calories are the multiple of 50 nearest to
\* (10*weight + 6.25*height - 5*age + s) * m + g and each macro is
\* round(calories * pct / kcal-per-gram); the scenario profile gets 2650 for
\* maintain weight and 2150 with 188 g protein, 72 g fat, 188 g carbs for
\* weight loss.
TargetsFollowFormula ==
    t_out.done =>
        /\ TargetsNearestToFormula
        /\ t_in = ScenarioProfile(sMaintainWeight) => t_out.calories = 2650
        /\ t_in = ScenarioProfile(sWeightLoss) =>
              /\ t_out.calories = 2150
              /\ t_out.macros = [ protein |-> 188, carbs |-> 188, fat |-> 72 ]

\* C9 (amended): the same formula; the scenario profile, whose basal rate is
\* 1673.75, gets 2600 for maintain weight and 2100 with 184 g protein, 70 g
\* fat, 184 g carbs for weight loss.
TargetsFollowFormulaScenario2600 ==
    t_out.done =>
        /\ TargetsNearestToFormula
        /\ t_in = ScenarioProfile(sMaintainWeight) => t_out.calories = 2600
        /\ t_in = ScenarioProfile(sWeightLoss) =>
              /\ t_out.calories = 2100
              /\ t_out.macros = [ protein |-> 184, carbs |-> 184, fat |-> 70 ]

\* the weight-loss scenario has been computed
WeightLossScenarioComputed ==
    /\ t_out.done
    /\ t_in = ScenarioProfile(sWeightLoss)
    /\ t_out.calories = 2100
    /\ t_out.macros.fat = 70

\* C10: over the whole range of the profile form, every activity level and
\* every goal, the calories are a multiple of 50 and strictly positive.
CaloriesMultipleOf50AndPositive ==
    t_out.done => (t_out.calories % 50 = 0 /\ t_out.calories > 0)

\* the energy of the returned grams less the calorie figure they were split from
MacroEnergyError ==
    t_out.macros.protein * 4 + t_out.macros.carbs * 4 + t_out.macros.fat * 9
        - t_out.calories

\* C11 (as stated): for every calorie figure and every goal the rounded grams
\* give back the calorie figure within 3 kcal:
\* |protein*4 + carbs*4 + fat*9 - calories| <= 3.
MacroEnergyWithin3 ==
    t_out.done => Abs(MacroEnergyError) <= 3

\* C11 (amended): the rounded grams give back the calorie figure within 7 kcal.
MacroEnergyWithin7 ==
    t_out.done => Abs(MacroEnergyError) <= 7

\* targets were computed whose grams are 7 kcal away from the calorie figure
MacroEnergySevenAway ==
    /\ t_out.done
    /\ Abs(MacroEnergyError) = 7

-----------------------------------------------------------------------------
(* Properties of a request for a profile with missing inputs *)

\* a profile field is missing: stored as None or as the empty text
MissingInputs(u) ==
    \/ TargetsRaise(u)
    \/ \E k \in { "gender", "goal", "activity_level" } : k \in DOMAIN u /\ u[k] = << >>

\* the documented defaults, for either sex term
DefaultTargets ==
    { [ weight |-> 70, height |-> 170, age |-> 30, gender |-> g,
        activity_level |-> sModeratelyActive, goal |-> sMaintainWeight ] :
      g \in { sMale, sFemale } }

\* C12: for every stored profile, also the one register_user has just
\* inserted (None numbers, empty texts), the request raises no fault and its
\* targets are those of the defaults (70 kg, 170 cm, 30 years, moderately
\* active, maintain weight).
MissingInputsDefaulted ==
    (pc \notin { "idle", "start" } /\ MissingInputs(user_data)) =>
        /\ result # [ kind |-> "raised", fault |-> "TypeError" ]
        /\ \E d \in DefaultTargets : calorie_goal = CalorieGoal(d)

\* the request for the profile of a just-registered user has ended
RegisteredUserRequested ==
    /\ user_data = WithId(RegisteredProfile, "u1")
    /\ pc \notin { "idle", "start" }

-----------------------------------------------------------------------------
(* Properties of the catalog filter *)

\* C13: filtering the filtered catalog again with the same allergies and
\* cuisines gives the same rows in the same order.
FilterIdempotent ==
    pc # "idle" =>
        LET filtered_df == FilteredRecipes(user_data, recipes_df)
        IN  FilteredRecipes(user_data, filtered_df) = filtered_df

\* a request whose allergies and cuisines are both given and whose filter
\* removed rows for an allergy, then rows for the cuisines, and kept a row
FilterRemovedSomeRows ==
    /\ pc # "idle"
    /\ Len(Get(user_data, "allergies", << >>)) > 0
    /\ Len(Get(user_data, "preferred_cuisines", << >>)) > 0
    /\ Len(AllergyFilter(recipes_df, Get(user_data, "allergies", << >>))) < Len(recipes_df)
    /\ Len(FilteredRecipes(user_data, recipes_df))
           < Len(AllergyFilter(recipes_df, Get(user_data, "allergies", << >>)))
    /\ Len(FilteredRecipes(user_data, recipes_df)) >= 1

\* the recipe matches the allergy term: an ingredient contains the term or a
\* token of the name equals it, letter case ignored
TermMatches(row, term) ==
    \/ \E i \in 1..Len(row.ingredients) : Contains(Lower(row.ingredients[i]), Lower(term))
    \/ \E w \in 1..Len(Split(Lower(row.name))) : Split(Lower(row.name))[w] = Lower(term)

\* the food is the recipe, whole or as a fraction "name (x0.5)"
DerivedFrom(food, row) ==
    LET n == Len(row.name)
    IN  /\ Len(food.name) >= n
        /\ SubSeq(food.name, 1, n) = row.name
        /\ \/ Len(food.name) = n
           \/ /\ Len(food.name) >= n + 3
              /\ SubSeq(food.name, n + 1, n + 3) = << " ", "(", "x" >>

\* C14: in a returned plan every food, base meal or top-up, whole or
\* fractional, derives from a catalog recipe, and from none that matches any
\* allergy term of the profile.
NoAllergenInPlan ==
    Returned =>
        \A i \in 1..Len(result.plan.days) :
            LET foods == FoodsOf(result.plan.days[i].meals)
                allergies == Get(user_data, "allergies", << >>)
            IN  \A f \in 1..Len(foods) :
                    /\ \E r \in 1..Len(recipes_df) : DerivedFrom(foods[f], recipes_df[r])
                    /\ \A r \in 1..Len(recipes_df) :
                           DerivedFrom(foods[f], recipes_df[r]) =>
                               \A a \in 1..Len(allergies) :
                                   ~ TermMatches(recipes_df[r], allergies[a])

\* a plan with a top-up returned for a profile with an allergy,
\* from a catalog holding a recipe matched by its ingredients and one matched
\* by its name only
PlanAvoidsMatchedRecipes ==
    /\ Returned
    /\ \E a \in 1..Len(Get(user_data, "allergies", << >>)) :
          /\ \E r \in 1..Len(recipes_df) :
                IngredientHit(recipes_df[r], CleanAllergies(user_data.allergies))
          /\ \E r \in 1..Len(recipes_df) :
                /\ ~ IngredientHit(recipes_df[r], CleanAllergies(user_data.allergies))
                /\ NameHit(recipes_df[r], CleanAllergies(user_data.allergies))
    /\ \E i \in 1..Len(result.plan.days) :
          Len(FoodsOf(result.plan.days[i].meals)) >= 4

-----------------------------------------------------------------------------
(* Properties of the recipe scorer *)

\* the rows of the input that a returned entry can stand for
RowsNamed(name) ==
    { i \in 1..Len(rf_in.recipe_data) : rf_in.recipe_data[i].Product_Name = name }

\* the score of a returned entry, from the goal and the row of its name
EntryScore(entry) ==
    LET i == CHOOSE i \in RowsNamed(entry.name) : TRUE
    IN  GoalScore(SanitizeRow(rf_in.recipe_data[i]), Lower(rf_in.user_data.goal))

MissingOrNonPositiveCalories(row) ==
    \/ row.Calories = NaN
    \/ RLeq(row.Calories, RInt(0))

\* C15: the call returns at most top_n entries, each with a score above 0, in
\* non-increasing order of score; a recipe with missing, zero or negative
\* calories gets the score -1 and is not returned.
ScoredListSound ==
    rf_out.done =>
        LET recs == rf_out.recommendations
        IN  /\ Len(recs) <= rf_in.num_recommendations
            /\ \A k \in 1..Len(recs) :
                  /\ RowsNamed(recs[k].name) # {}
                  /\ RLess(RInt(0), EntryScore(recs[k]))
            /\ \A k, l \in 1..Len(recs) :
                  k < l => RLeq(EntryScore(recs[l]), EntryScore(recs[k]))
            /\ \A i \in 1..Len(rf_in.recipe_data) :
                  MissingOrNonPositiveCalories(rf_in.recipe_data[i]) =>
                      /\ rf_out.scores[i] = RInt(-1)
                      /\ \A k \in 1..Len(recs) :
                             recs[k].name # rf_in.recipe_data[i].Product_Name

\* the scenario: calories [0, 200] and goal weight loss; the zero-calorie
\* recipe got -1 and only the other one was returned
ZeroCalorieRecipeExcluded ==
    /\ rf_out.done
    /\ rf_in.user_data.goal = sWeightLoss
    /\ rf_in.recipe_data = << RecipeDetails[1], RecipeDetails[2] >>
    /\ rf_out.scores[1] = RInt(-1)
    /\ Len(rf_out.recommendations) = 1
    /\ rf_out.recommendations[1].name = RecipeDetails[2].Product_Name

\* the three lists of a returned mapping, one after the other
ReturnedExercises == ex_out.Cardio \o ex_out.Strength \o ex_out.Flexibility

EmptyHistory == load_user_ratings(ratings_csv) = << >>

\* C16: with an empty rating history and a non-empty catalog, recommend_exercises
\* does not raise and returns a category mapping, every exercise of which
\* carries predicted rating 3.0
EmptyHistoryGivesDefaultRatings ==
    (ex_out # NoExercises /\ EmptyHistory /\ Len(ex_in.exercise_data) > 0)
        => /\ ex_out.kind = "recommendations"
           /\ \A k \in 1..Len(ReturnedExercises) :
                  ReturnedExercises[k].predicted_rating = RInt(3)

\* a profile with its numbers, no ratings: exercises selected by the ranking
\* and one added by the top-up (its type kept unstripped), all at 3.0
ToppedUpWithDefaultRating ==
    /\ EmptyHistory
    /\ ex_out.kind = "recommendations"
    /\ \E k \in 1..Len(ex_out.Strength) : ex_out.Strength[k].type # Strip(ex_out.Strength[k].type)
    /\ \E k \in 1..Len(ex_out.Strength) : ex_out.Strength[k].name = "Push Up"
    /\ \A k \in 1..Len(ReturnedExercises) : ReturnedExercises[k].predicted_rating = RInt(3)

\* C17: every stored user whose weight and height are numbers has
\* bmi = weight / (height / 100)^2 of the stored weight and height
BmiFollowsWeightAndHeight ==
    \A id \in UserIds :
        LET user == users_collection[id]
        IN  (user # NoUser /\ ~ IsNone(user, "weight") /\ ~ IsNone(user, "height"))
                => /\ ~ IsNone(user, "bmi")
                   /\ user.bmi = BmiOf(user.weight, user.height)

\* a profile saved again after a progress entry: the stored bmi is the one of
\* the form's weight and height, not the one of the progress entry
BmiRecomputedAfterProgressAndEdit ==
    \E id \in UserIds :
        LET user == users_collection[id]
        IN  /\ user # NoUser
            /\ user_log = [ op |-> "update_user", id |-> id, ok |-> TRUE ]
            /\ Len(user.progress_history) > 0
            /\ user.progress_history[Len(user.progress_history)].bmi # user.bmi
            /\ user.bmi = BmiOf(user.weight, user.height)

\* the Days of the plans assembled so far in the running generation
AssembledDays == meal_plan.days \o (IF day_plan = NoDayPlan THEN << >> ELSE << day_plan >>)

\* a write to the collection is either the insertion of a snapshot whose Days
\* are all unlogged, or the change of the logged flag of one Day with the
\* called day number in one snapshot of the called user
LoggedFlagOnly ==
    LET old == meal_plans_collection
        new == meal_plans_collection'
    IN  new # old =>
          \/ /\ Len(new) = Len(old) + 1
             /\ SubSeq(new, 1, Len(old)) = old
             /\ \A k \in 1..Len(new[Len(new)].meal_plan.days) :
                    ~ new[Len(new)].meal_plan.days[k].logged
          \/ /\ logged_call'.count = logged_call.count + 1
             /\ \E i \in 1..Len(old) : \E k \in 1..Len(old[i].meal_plan.days) :
                   /\ old[i].user_id = ObjectId(logged_call'.user_id)
                   /\ old[i].meal_plan.days[k].day = logged_call'.day
                   /\ new = [ old EXCEPT ![i].meal_plan.days[k].logged = logged_call'.logged ]

\* C18: every Day of a newly assembled plan has logged = false, and afterwards
\* update_logged_status changes nothing of the stored plans but the logged
\* flag of one Day with that day number in one snapshot owned by that user
NewDaysUnloggedThenOnlyFlagChanges ==
    /\ [](\A k \in 1..Len(AssembledDays) : ~ AssembledDays[k].logged)
    /\ [](result.kind = "plan" => \A k \in 1..Len(result.plan.days) : ~ result.plan.days[k].logged)
    /\ [][LoggedFlagOnly]_vars

\* two snapshots of one user, Day 2 of one of them logged, every other Day of
\* both unlogged
OneDayOfOneSnapshotLogged ==
    /\ Len(meal_plans_collection) = 2
    /\ meal_plans_collection[1].user_id = meal_plans_collection[2].user_id
    /\ logged_call = [ count |-> 1, user_id |-> "u1", day |-> 2, logged |-> TRUE ]
    /\ \E i \in 1..2 :
          /\ Len(meal_plans_collection[i].meal_plan.days) = 2
          /\ meal_plans_collection[i].meal_plan.days[2].logged
          /\ ~ meal_plans_collection[i].meal_plan.days[1].logged
          /\ \A k \in 1..Len(meal_plans_collection[3 - i].meal_plan.days) :
                 ~ meal_plans_collection[3 - i].meal_plan.days[k].logged

MealNames == << << "B","r","e","a","k","f","a","s","t" >>, << "L","u","n","c","h" >>, << "D","i","n","n","e","r" >> >>

\* the Day holds the three Meals in order, the first portion of each being the
\* pool entry at index (d - 1) mod pool_size, the pool no longer than `days`
DayWellFormed(dp) ==
    /\ Len(dp.meals) = 3
    /\ \A k \in 1..3 :
          LET pool == week_plan[k]
              entry == pool[((dp.day - 1) % Len(pool)) + 1]
          IN  /\ dp.meals[k].meal_name = MealNames[k]
              /\ Len(pool) <= days
              /\ Len(dp.meals[k].foods) >= 1
              /\ dp.meals[k].foods[1] =
                     [ name |-> entry.name, calories |-> RInt(entry.calories),
                       protein |-> RInt(entry.protein), carbs |-> RInt(entry.carbs),
                       fat |-> RInt(entry.fat) ]

\* C19: a returned plan for days = N has the Days 1..N in order, each with the
\* Meals Breakfast, Lunch, Dinner, whose first portion is the entry at index
\* (d - 1) mod pool_size of the slot's pool of at most N candidates; the top-up
\* never adds or removes a Meal
PlanShape ==
    /\ (pc \in { "topup", "break_fraction", "break_rejected" }) => DayWellFormed(day_plan)
    /\ result.kind = "plan" =>
          /\ Len(result.plan.days) = days
          /\ \A d \in 1..days :
                /\ result.plan.days[d].day = d
                /\ DayWellFormed(result.plan.days[d])

\* a two-day plan from pools of two, the second Day topped up: its first
\* portions are the second entries of the pools
SecondDayRotated ==
    /\ result.kind = "plan"
    /\ days = 2
    /\ \A k \in 1..3 : Len(week_plan[k]) = 2
    /\ \A k \in 1..3 : result.plan.days[2].meals[k].foods[1].name = week_plan[k][2].name
    /\ \E k \in 1..3 : Len(result.plan.days[2].meals[k].foods) > 1
    /\ result.plan.days[1].meals[1].foods[1].name # result.plan.days[2].meals[1].foods[1].name

-----------------------------------------------------------------------------
(* Properties of the fractional top-up *)

\* f" (x{round(fraction,2)})" closes the name of a fractional portion
Annotated(food) == food.name # << >> /\ food.name[Len(food.name)] = ")"

FractionalPortions(meals) == SelectSeq(FoodsOf(meals), Annotated)

REqual(a, b) == a.n * b.d = b.n * a.d

\* the loop of line 152 is at a candidate whose full addition would pass
\* calorie_goal + 50
AtOvershootingCandidate ==
    /\ pc = "topup"
    /\ RLess(totals.calories, RInt(calorie_goal - 50))
    /\ pointers[CurrentSlot] < Len(week_plan[CurrentSlot])
    /\ RLess(RInt(calorie_goal + 50), RAdd(totals.calories, RInt(Candidate.calories)))

\* f = (calorie_goal - total) / candidate calories
GapFraction == RDiv(RSub(RInt(calorie_goal), totals.calories), RInt(Candidate.calories))

\* one portion of the candidate, f times its nutrients, was appended to the
\* meal with the lowest summed calories and no other meal changed
FractionAppendedToLowestMeal ==
    \E k \in 1..Len(day_plan.meals) :
        /\ \A j \in 1..Len(day_plan.meals) :
              RLeq(FoodCalories(day_plan.meals[k]), FoodCalories(day_plan.meals[j]))
        /\ Len(day_plan'.meals[k].foods) = Len(day_plan.meals[k].foods) + 1
        /\ SubSeq(day_plan'.meals[k].foods, 1, Len(day_plan.meals[k].foods)) = day_plan.meals[k].foods
        /\ LET extra_food == day_plan'.meals[k].foods[Len(day_plan.meals[k].foods) + 1]
           IN  /\ Annotated(extra_food)
               /\ REqual(extra_food.calories, RMul(RInt(Candidate.calories), GapFraction))
               /\ REqual(extra_food.protein, RMul(RInt(Candidate.protein), GapFraction))
               /\ REqual(extra_food.carbs, RMul(RInt(Candidate.carbs), GapFraction))
               /\ REqual(extra_food.fat, RMul(RInt(Candidate.fat), GapFraction))
        /\ \A j \in 1..Len(day_plan.meals) : j # k => day_plan'.meals[j] = day_plan.meals[j]

\* C21: at the first candidate of a Day whose full addition would pass
\* calorie_goal + 50, with f = (calorie_goal - total) / candidate calories:
\* if f >= 0.4 then f < 1, exactly one portion of f times the candidate is
\* appended to the meal with the lowest summed calories and the running total
\* becomes exactly calorie_goal; if f < 0.4 nothing is added. In both cases the
\* loop is left and the Day is stored as it is, so a portion is only ever added
\* to a Day that holds no fractional portion: a Day holds at most one, the last
\* one added.
FractionalTopUpEndsTheDay ==
    /\ [][ AtOvershootingCandidate =>
             /\ pc' \in { "break_fraction", "break_rejected" }
             /\ IF RLeq(Rat(4, 10), GapFraction)
                THEN /\ RLess(GapFraction, RInt(1))
                     /\ FractionAppendedToLowestMeal
                     /\ REqual(totals'.calories, RInt(calorie_goal))
                ELSE day_plan' = day_plan /\ totals' = totals
         ]_vars
    /\ [][ (pc = "break_fraction" \/ pc = "break_rejected") =>
             /\ Len(meal_plan'.days) = Len(meal_plan.days) + 1
             /\ meal_plan'.days[Len(meal_plan'.days)].meals = day_plan.meals
             /\ REqual(meal_plan'.days[Len(meal_plan'.days)].total_calories, RRound1(totals.calories))
         ]_vars
    /\ [][ (day_plan'.day = day_plan.day /\ day_plan'.meals # day_plan.meals)
             => FractionalPortions(day_plan.meals) = << >> ]_vars
    /\ [](\A i \in 1..Len(meal_plan.days) :
             Len(FractionalPortions(meal_plan.days[i].meals)) <= 1)

\* a Day that received full top-ups and then one fractional portion, its
\* running total at calorie_goal, and the loop left
FractionalPortionClosedTheGap ==
    /\ pc = "break_fraction"
    /\ Len(FoodsOf(day_plan.meals)) >= 5
    /\ Len(FractionalPortions(day_plan.meals)) = 1
    /\ REqual(totals.calories, RInt(calorie_goal))

-----------------------------------------------------------------------------
(* Properties of the intensity tier *)

\* the tier mapped from the plan level: <= 3 Beginner, >= 6 Expert, else Intermediate
PlanTier(u) ==
    LET exercise_plan == get_exercise_recommendation_plan(u)
    IN  IF exercise_plan <= 3 THEN sBeginner
        ELSE IF exercise_plan >= 6 THEN sExpert ELSE sIntermediate

\* the tier of the stated activity level
ActivityTier(u) == ActivitySettings(u).level

\* health_status underweight/obese/poor, a risk keyword in health_conditions,
\* or the older age band
RiskProfile(u) ==
    \/ Lower(Get(u, "health_status", sHealthy)) \in
           { << "u","n","d","e","r","w","e","i","g","h","t" >>, << "o","b","e","s","e" >>, << "p","o","o","r" >> }
    \/ \E kw \in { << "h","e","a","r","t" >>, << "d","i","a","b","e","t","e","s" >>,
                   << "r","e","s","p","i","r","a","t","o","r","y" >>, << "j","o","i","n","t" >>,
                   << "k","n","e","e"," ","p","a","i","n" >>, << "b","a","c","k"," ","p","a","i","n" >> } :
          Contains(Lower(Get(u, "health_conditions", sNone)), kw)
    \/ Get(u, "age", 30) > 50

\* C22: the intensity tier recommend_exercises uses never exceeds the tier
\* mapped from the plan level, never exceeds the tier of the stated activity
\* level, and is Beginner for a profile whose health_status is
\* underweight/obese/poor, whose health_conditions hold a risk keyword or whose
\* age is above 50.
IntensityTierConservative ==
    ex_out.kind = "recommendations" =>
        LET u == ex_in.user_data
            intensity_level == IntensityLevel(u)
        IN  /\ LevelIndex(intensity_level) <= LevelIndex(PlanTier(u))
            /\ LevelIndex(intensity_level) <= LevelIndex(ActivityTier(u))
            /\ RiskProfile(u) => intensity_level = sBeginner

\* recommendations were returned to a profile whose plan level maps to Expert
\* and whose stated activity level caps the tier at Beginner
ExpertPlanCappedByActivity ==
    /\ ex_out.kind = "recommendations"
    /\ PlanTier(ex_in.user_data) = sExpert
    /\ ActivityTier(ex_in.user_data) = sBeginner
    /\ IntensityLevel(ex_in.user_data) = sBeginner

-----------------------------------------------------------------------------
(* Properties of the exercises returned *)

\* the catalog attribute an entry of the mapping carries under each key
AttributeOf(ex, key) ==
    CASE key = "BodyPart" -> ex.main_muscle
      [] key = "Type" -> ex.type
      [] key = "Equipment" -> ex.equipment
      [] OTHER -> ex.level

\* the attribute exclusions of the condition keywords present in the text
ViolatesExclusion(ex, health_conditions) ==
    \E c \in 1..Len(condition_exclusions) :
        /\ Contains(Lower(health_conditions), condition_exclusions[c].condition)
        /\ \E e \in 1..Len(condition_exclusions[c].exclusions) :
              \E v \in 1..Len(condition_exclusions[c].exclusions[e].values) :
                  Contains(Lower(AttributeOf(ex, condition_exclusions[c].exclusions[e].key)),
                           Lower(condition_exclusions[c].exclusions[e].values[v]))

\* the computed tier and the next-easier tier
TierAndNextEasier(tier) ==
    { l \in { sBeginner, sIntermediate, sExpert } :
        LevelIndex(tier) - 1 <= LevelIndex(l) /\ LevelIndex(l) <= LevelIndex(tier) }

\* C23: every exercise of the mapping recommend_exercises returns has a Level
\* among the computed tier and the next-easier tier and violates none of the
\* attribute exclusions of a condition keyword present in health_conditions,
\* whether it was predicted from a neighbour, given the default 3.0, taken from
\* the static-rating fallback or added by the top-up of a short category.
ReturnedExercisesAllowed ==
    ex_out.kind = "recommendations" =>
        \A k \in 1..Len(ReturnedExercises) :
            /\ ReturnedExercises[k].level \in TierAndNextEasier(IntensityLevel(ex_in.user_data))
            /\ ~ ViolatesExclusion(ReturnedExercises[k],
                                   Get(ex_in.user_data, "health_conditions", sNone))

\* a profile with back pain, a catalog holding rows the condition excludes and
\* a row above the allowed levels, and a mapping with an exercise predicted
\* from a neighbour's rating and a Cardio entry added by the top-up
BackPainMappingFromNeighbourAndTopUp ==
    /\ ex_out.kind = "recommendations"
    /\ Contains(Lower(Get(ex_in.user_data, "health_conditions", sNone)), << "b","a","c","k"," ","p","a","i","n" >>)
    /\ \E i \in 1..Len(ex_in.exercise_data) :
          Excluded(ex_in.exercise_data[i], Lower(ex_in.user_data.health_conditions))
    /\ \E i \in 1..Len(ex_in.exercise_data) :
          ex_in.exercise_data[i].Level \notin TierAndNextEasier(IntensityLevel(ex_in.user_data))
    /\ \E k \in 1..Len(ReturnedExercises) : ReturnedExercises[k].predicted_rating = RInt(5)
    /\ Len(ex_out.Cardio) >= 2

-----------------------------------------------------------------------------
(* Properties of the category sizes *)

\* num_recommendations * normalized category weight, as an exact number
WeightedShare(u, num_recommendations, category) ==
    LET weights == Weights(u)
    IN  Rat(num_recommendations * WeightOf(weights, category),
            weights.Cardio + weights.Strength + weights.Flexibility)

\* round(num_recommendations * normalized category weight)
RoundedShare(u, num_recommendations, category) ==
    LET share == WeightedShare(u, num_recommendations, category)
    IN  RoundHalfEven(share.n, share.d)

ListOf(category) ==
    CASE category = sCardio -> ex_out.Cardio
      [] category = sStrength -> ex_out.Strength
      [] OTHER -> ex_out.Flexibility

\* the filtered catalog holds at least the rounded share of each category
CatalogHoldsQuotas ==
    LET df == FilteredExercises(ex_in.user_data, ex_in.exercise_data)
    IN  \A c \in 1..3 :
            Len(CategoryRows(df, c)) >=
                RoundedShare(ex_in.user_data, ex_in.num_recommendations, Categories[c])

\* C24: when the filtered catalog holds at least the quota of every category,
\* the number of exercises returned for each of Cardio, Strength and
\* Flexibility is round(num_recommendations * normalized category weight) and
\* so within one unit of num_recommendations * weight, for Strength after its
\* subdivision by muscle group as well.
CategorySizesAreRoundedShares ==
    (ex_out.kind = "recommendations" /\ CatalogHoldsQuotas) =>
        \A c \in 1..3 :
            LET share == WeightedShare(ex_in.user_data, ex_in.num_recommendations, Categories[c])
                size == Len(ListOf(Categories[c]))
            IN  /\ size = RoundedShare(ex_in.user_data, ex_in.num_recommendations, Categories[c])
                /\ Abs(size * share.d - share.n) <= share.d

\* two recommendations asked for by a Weight Gain profile: the share of
\* Strength is 1.4 and three Strength exercises are returned, one per muscle
\* group
ThreeStrengthExercisesForShareBelowTwo ==
    /\ ex_out.kind = "recommendations"
    /\ CatalogHoldsQuotas
    /\ ex_in.num_recommendations = 2
    /\ RoundedShare(ex_in.user_data, 2, sStrength) = 1
    /\ Len(ex_out.Strength) = 3
    /\ { MuscleGroupOf(ex_out.Strength[k]) : k \in 1..3 } = { 1, 2, 3 }

-----------------------------------------------------------------------------
(* Properties of the meal planner page *)

PlanOnlyFields == { "user", "daily_calories", "macros", "days" }

\* C25: when plan generation returned an error result, the page displays the
\* error and raises no fault: it reads none of the plan-only fields (user,
\* daily_calories, macros, days) from the error result afterwards.
ErrorResultSurfacedWithoutFault ==
    (pc = "done" /\ result.kind = "error" /\ page.pc # "idle") =>
        /\ page.shown = "error"
        /\ page.fault = "none"
        /\ page.read \cap PlanOnlyFields = {}

\* the error was displayed and the next statement of the script,
\* convert_plan_to_text, raised KeyError reading 'user' from the error result
ErrorShownThenKeyError ==
    /\ pc = "done"
    /\ result.kind = "error"
    /\ page.shown = "error"
    /\ page.pc = "raised"
    /\ page.fault = "KeyError"
    /\ page.read = { "error", "user" }

-----------------------------------------------------------------------------
(* Properties of logging a Day of the latest plan *)

\* the Days numbered d of a plan
DaysNumbered(plan, d) == { k \in 1..Len(plan.days) : plan.days[k].day = d }

\* C26: once update_logged_status(u, d, true) was called for a day d of the
\* plan get_meal_plan(u) returns, the next get_meal_plan(u) returns that
\* latest plan with day d logged, however many snapshots the user has: the
\* flag is not set on an older snapshot instead.
LoggedDayShownInLatestPlan ==
    (pc = "done" /\ logged_call.count > 0 /\ logged_call.logged) =>
        \A plan \in get_meal_plan(meal_plans_collection, logged_call.user_id) :
            plan # None =>
                \A k \in DaysNumbered(plan, logged_call.day) : plan.days[k].logged

\* a user with two snapshots logged Day 1 of the latest plan: the older
\* snapshot holds the flag and get_meal_plan returns the latest plan with
\* Day 1 unlogged
OlderSnapshotLoggedInstead ==
    /\ pc = "done"
    /\ Len(meal_plans_collection) = 2
    /\ meal_plans_collection[1].user_id = meal_plans_collection[2].user_id
    /\ meal_plans_collection[1].created_at < meal_plans_collection[2].created_at
    /\ logged_call = [ count |-> 1, user_id |-> "u1", day |-> 1, logged |-> TRUE ]
    /\ meal_plans_collection[1].meal_plan.days[1].logged
    /\ get_meal_plan(meal_plans_collection, "u1") = { meal_plans_collection[2].meal_plan }
    /\ ~ meal_plans_collection[2].meal_plan.days[1].logged

-----------------------------------------------------------------------------
(* Properties of concurrent rating saves *)

\* the pairs for which a Save Rating has completed
SavedPairs == { k \in UserIds \X ExerciseTitles : rating_log.latest[k] # 0 }

\* C27: no saved rating is lost to another save: once the saves of the
\* sessions have completed, with their load and write steps interleaved in any
\* order, the store holds a row for every (user, exercise) pair that was saved.
NoRatingLostToAnotherSave ==
    (\A s \in Sessions : rating_sessions[s].pc = "idle") =>
        \A k \in SavedPairs : Mask(load_user_ratings(ratings_csv), k[1], k[2]) # {}

\* two sessions saved ratings for different pairs, each loading the table
\* before the other wrote it: both saves completed and the store holds one row
OverlappingSavesLeftOneRow ==
    /\ rating_log.overlap
    /\ rating_log.count = 2
    /\ \A s \in Sessions : rating_sessions[s].pc = "idle"
    /\ Cardinality(SavedPairs) = 2
    /\ Len(load_user_ratings(ratings_csv)) = 1

-----------------------------------------------------------------------------
(* Properties of the user key of the ratings *)

\* the titles the ratings file holds a row for under the key id
RatedUnder(id) ==
    { load_user_ratings(ratings_csv)[i].exercise_title :
        i \in { i \in 1..Len(load_user_ratings(ratings_csv)) :
                  load_user_ratings(ratings_csv)[i].user_id = id } }

\* a record as get_user returns it: its key is the field _id
IsGetUserRecord(u) == "_id" \in DOMAIN u

\* C28: the key Save Rating stores under (the logged-in user's id) is the key
\* recommend_exercises looks the history up by: for a profile record as
\* get_user returns it, an exercise the user has rated is not given a
\* predicted score; where it is returned it is a top-up entry at 3.0.
RatedExercisesNotPredicted ==
    (ex_out.kind = "recommendations" /\ IsGetUserRecord(ex_in.user_data)) =>
        \A k \in 1..Len(ReturnedExercises) :
            ReturnedExercises[k].name \in RatedUnder(ex_in.user_data._id)
                => REqual(ReturnedExercises[k].predicted_rating, RInt(3))

\* user u1 rated Push Up 5; the record get_user returns for u1 is given its
\* own rating of Push Up as the predicted score of an unrated exercise
OwnRatingReturnedAsPrediction ==
    /\ ex_out.kind = "recommendations"
    /\ IsGetUserRecord(ex_in.user_data)
    /\ ex_in.user_data._id = "u1"
    /\ "Push Up" \in RatedUnder("u1")
    /\ \E k \in 1..Len(ReturnedExercises) :
           /\ ReturnedExercises[k].name = "Push Up"
           /\ REqual(ReturnedExercises[k].predicted_rating, RInt(5))

-----------------------------------------------------------------------------
(* Properties of the activity level of a stored profile *)

\* the values the profile form stores (the select box options, lower-cased)
\* with the multiplier of the table entry each one names
StoredActivityLevels ==
    << << sSedentary, 1200 >>, << sLightlyActiveStored, 1375 >>,
       << sModeratelyActiveStored, 1550 >>, << sVeryActiveStored, 1725 >> >>

\* the daily calories of the input for a multiplier given in thousandths
CaloriesAtMultiplier(multiplier) ==
    RoundHalfEven(Bmr4(t_in.weight, t_in.height, t_in.age, Lower(t_in.gender)) * multiplier
                      + 4000 * CalorieAdjustment(Strip(Lower(t_in.goal))), 200000) * 50

\* C29: every activity level the profile form can store is resolved to its own
\* entry of the multiplier table (1.20, 1.375, 1.55, 1.725): the calories
\* computed for it are those of that multiplier.
StoredLevelUsesOwnMultiplier ==
    t_out.done =>
        \A i \in 1..Len(StoredActivityLevels) :
            t_in.activity_level = StoredActivityLevels[i][1]
                => t_out.calories = CaloriesAtMultiplier(StoredActivityLevels[i][2])

\* a profile stored as "very active" is given the calories of the default
\* multiplier 1.55, which differ from those of 1.725
VeryActiveGivenDefaultMultiplier ==
    /\ t_out.done
    /\ t_in.activity_level = sVeryActiveStored
    /\ t_out.calories = CaloriesAtMultiplier(1550)
    /\ t_out.calories # CaloriesAtMultiplier(1725)

-----------------------------------------------------------------------------
(* Properties of the titles within a category *)

\* the titles of the catalog are distinct
CatalogTitlesDistinct ==
    \A i, j \in 1..Len(ex_in.exercise_data) :
        ex_in.exercise_data[i].Title = ex_in.exercise_data[j].Title => i = j

NoTitleTwice(exercises) ==
    \A i, j \in 1..Len(exercises) : exercises[i].name = exercises[j].name => i = j

\* C30: in the mapping recommend_exercises returns, no exercise title appears
\* more than once within the list of a category, the entries added by the
\* top-up included.
NoTitleTwiceInCategory ==
    ex_out.kind = "recommendations" =>
        \A category \in { sCardio, sStrength, sFlexibility } :
            NoTitleTwice(ListOf(category))

\* a category short of its quota whose top-up added an exercise the ranking
\* had already selected: the title is listed once with its predicted rating
\* and once more as a top-up entry
SelectedExerciseAddedAgainByTopUp ==
    /\ ex_out.kind = "recommendations"
    /\ CatalogTitlesDistinct
    /\ \E category \in { sCardio, sStrength, sFlexibility } :
           \E i, j \in 1..Len(ListOf(category)) :
               /\ i < j
               /\ ListOf(category)[i].name = ListOf(category)[j].name
               /\ REqual(ListOf(category)[j].predicted_rating, RInt(3))

====
